---- MODULE Spec2Model ----
(***************************************************************************)
(* Reel approval / scheduling / publishing lifecycle of the content bot:   *)
(* the Telegram command handlers (src/controllers/telegram_bot.py), the    *)
(* orchestrator jobs and operations (src/controllers/orchestrator.py) and  *)
(* the repositories they write through (src/database/repositories.py).     *)
(* Content generation (the loop of BotOrchestrator.generate_content with   *)
(* the asset tables it reads and updates) runs under SpecGen.               *)
(* The cron-driven publish job under fairness is SpecLive, the five job     *)
(* callbacks are SpecJobs, the calendar job on larger calendars is         *)
(* SpecCalendar, /reschedule is SpecReschedule, the attempts of            *)
(* find_matching_combination are SpecSelect and calculate_weight is        *)
(* SpecWeight.  Commands interleaving with a running batch are SpecRace,   *)
(* start() and stop() are SpecStop, the sessions of the coroutines are     *)
(* SpecSessions, InstagramService.publish_reel is SpecPublishReel and      *)
(* LLMProvider.generate is SpecCaption.                                    *)
(*                                                                         *)
(* Time is counted in ticks since a Monday 00:00 UTC.  A day has           *)
(* MinutesPerDay configurable "HH:MM" instants, each TicksPerMinute ticks  *)
(* long, so that an instant inside a minute (seconds > 0) is distinct from *)
(* the start of that minute.                                               *)
(***************************************************************************)
EXTENDS Integers, Sequences, FiniteSets, TLC

\* ---------------------------------------------------------------- bounds
MaxReels == 1
MaxElapsed == 1
MinutesPerDay == 2
TicksPerMinute == 2

\* ------------------------------------------------------- configuration
\* content.generation.queue_target as configured for the model
queue_target == 2
\* telegram.admin_users as configured for the model
admin_users == <<1>>
\* Telegram users that send updates: 1 is the configured admin, 2 is not
Users == {1, 2}

DaysPerWeek == 7
TicksPerDay == MinutesPerDay * TicksPerMinute
TicksPerWeek == DaysPerWeek * TicksPerDay

Days == 0 .. (DaysPerWeek - 1)
Minutes == 0 .. (MinutesPerDay - 1)

\* scheduling.post_times values the lifecycle model starts with
PostTimesChoices ==
    { <<>>, <<[day |-> 1, time |-> MinutesPerDay - 1]>>, <<[day |-> 0, time |-> 0]>> }

\* the instant the lifecycle model starts at: the last tick of a Wednesday
StartTimes == { 3 * TicksPerDay - 1 }

VARIABLES
    reels,          \* generated_reels table: reel id -> row
    posts,          \* scheduled_posts table: rows in insertion order
    files,          \* reel ids whose output_path exists on disk
    now,            \* datetime.utcnow()
    started,        \* the instant the process started
    post_times,     \* config scheduling.post_times
    gen_remaining,  \* iterations left in the running generate_content batch
    lastOp,         \* what the last handler / job run did and reported
    nst_cfg,        \* argument of the evaluated _get_next_scheduled_time call
    nst_result,     \* its return value, <<>> before the call
    videos,         \* videos table: filename -> row
    music,          \* music table: filename -> row
    quotes,         \* quotes table: text -> row
    use_ai_prompt,  \* gemini_generator.client is not None
    gen_count,      \* the count argument of the running generate_content call
    results,        \* its results list: ids of the reels it created
    gen_step,       \* what the last job run / loop iteration did
    publish_runs,   \* runs of publish_scheduled_job so far, modulo 2
    telegram_bot,   \* whether the orchestrator was given a telegram_bot
    calendar,       \* the content_calendar table
    job_step,       \* what the last run of a job callback did
    resched_step,   \* what the last /reschedule command did
    selection,      \* the running call of find_matching_combination
    assets,         \* the assets select_by_weighted_random is given
    weights,        \* the weights it computed for them, once it has
    running,        \* BotOrchestrator.running
    scheduler,      \* state of the AsyncIOScheduler: created, running, shutdown
    session,        \* BotOrchestrator.session: none, open, closed
    polling,        \* application.updater.running of the Telegram listener
    coroutines,     \* the coroutines that touch persistence: where each is
    ig_call,        \* the running call of InstagramService.publish_reel
    llm_call        \* the last call of LLMProvider.generate

\* the state of content generation
genvars == << videos, music, quotes, use_ai_prompt, gen_count, results, gen_step >>

\* the state of the lifecycle
corevars == << reels, posts, files, now, started, post_times, gen_remaining,
               lastOp, nst_cfg, nst_result >>

\* the state the other specifications add
\* the state of the job callbacks
jobvars == << telegram_bot, calendar, job_step >>

\* the state of the weight computation
weightvars == << assets, weights >>

\* the state of start(), stop() and the coroutines in flight
runvars == << running, scheduler, session, polling, coroutines >>

\* the state of the calls into the Instagram and caption services
servicevars == << ig_call, llm_call >>

auxvars == << publish_runs, jobvars, resched_step, selection, weightvars,
             runvars, servicevars >>

vars == << reels, posts, files, now, started, post_times, gen_remaining,
           lastOp, nst_cfg, nst_result, genvars, auxvars >>

\* ------------------------------------------------------ datetime model
weekday(t) == (t \div TicksPerDay) % DaysPerWeek

\* now.replace(hour=hour, minute=minute, second=0, microsecond=0)
replace_hm(t, minute) == (t \div TicksPerDay) * TicksPerDay + minute * TicksPerMinute

\* timedelta(days=7 - now.weekday() + day if day >= now.weekday() else day):
\* the conditional expression binds weaker than the arithmetic
_get_next_scheduled_time_days(day, t) ==
    IF day >= weekday(t) THEN 7 - weekday(t) + day ELSE day

_get_next_scheduled_time(post_time_config, t) ==
    LET day == post_time_config.day
        scheduled == replace_hm(t, post_time_config.time)
    IN  IF scheduled <= t
        THEN scheduled + TicksPerDay * _get_next_scheduled_time_days(day, t)
        ELSE scheduled

\* -------------------------------------------------------- quality gate
\* quality scores are counted in hundredths
\* content.generation.quality_threshold
quality_threshold == 75
\* result.get("quality_score", 0.8): the dict video_generator.generate
\* returns has no "quality_score" key
result_quality_score == 80
\* scores check_integrity can measure: 1.0 less 0.3 (no video stream) and
\* 1.0 less 0.1 (no audio stream)
Scores == {70, 90}

\* result["quality_score"] >= min_quality_score
is_acceptable(score, min_quality_score) == score >= min_quality_score

\* ------------------------------------------------------- repositories
NoOp == [op |-> "none", user |-> 0, reel_id |-> 0, prev |-> "none",
         reply |-> "none", sched |-> "not_called", pub |-> "not_called",
         handed |-> {}]

GeneratedReelRepository_get_by_id(rs, reel_id) == reel_id \in DOMAIN rs

StatusOf(rs, reel_id) == IF reel_id \in DOMAIN rs THEN rs[reel_id].status ELSE "none"

GeneratedReelRepository_create(rs, quality_score) ==
    Append(rs, [status |-> "pending", approved_at |-> <<>>,
                quality_score |-> quality_score])

GeneratedReelRepository_update_status_nostamp(rs, reel_id, status, t) ==
    IF reel_id \in DOMAIN rs
    THEN [rs EXCEPT ![reel_id].status = status]
    ELSE rs

GeneratedReelRepository_update_status_default(rs, reel_id, status, t) ==
    IF reel_id \in DOMAIN rs
    THEN [rs EXCEPT ![reel_id] =
            [status |-> IF status = "approved" THEN status ELSE "pending",
             approved_at |-> IF status = "approved" THEN <<t>> ELSE @.approved_at,
             quality_score |-> @.quality_score]]
    ELSE rs

GeneratedReelRepository_update_status(rs, reel_id, status, t) ==
    IF reel_id \in DOMAIN rs
    THEN [rs EXCEPT ![reel_id] =
            [status |-> status,
             approved_at |-> IF status = "approved" THEN <<t>> ELSE @.approved_at,
             quality_score |-> @.quality_score]]
    ELSE rs

GeneratedReelRepository_get_by_status(rs, status) ==
    { i \in DOMAIN rs : rs[i].status = status }

PostsOf(ps, reel_id) == { i \in DOMAIN ps : ps[i].reel_id = reel_id }

NewPost(reel_id, scheduled_time) ==
    [reel_id |-> reel_id, scheduled_time |-> scheduled_time,
     status |-> "pending", retry_count |-> 0, error_message |-> <<>>]

ScheduledPostRepository_create_nounique(ps, reel_id, scheduled_time) ==
    [ok |-> TRUE, posts |-> Append(ps, NewPost(reel_id, scheduled_time))]

\* session.add + commit; the UNIQUE constraint on scheduled_posts.reel_id makes
\* the commit raise IntegrityError when a row for the reel exists
ScheduledPostRepository_create(ps, reel_id, scheduled_time) ==
    IF PostsOf(ps, reel_id) # {}
    THEN [ok |-> FALSE, posts |-> ps]
    ELSE [ok |-> TRUE, posts |-> Append(ps, NewPost(reel_id, scheduled_time))]

\* query(ScheduledPost).filter(reel_id == id).first(), then session.delete
RemoveAt(ps, i) == [j \in 1 .. (Len(ps) - 1) |-> IF j < i THEN ps[j] ELSE ps[j + 1]]

FirstPostOf(ps, reel_id) == CHOOSE i \in PostsOf(ps, reel_id) : \A j \in PostsOf(ps, reel_id) : i <= j

DeleteFirstPost(ps, reel_id) ==
    IF PostsOf(ps, reel_id) = {} THEN ps ELSE RemoveAt(ps, FirstPostOf(ps, reel_id))

\* ------------------------------------------------------------ helpers
_is_admin(user_id) ==
    IF admin_users = <<0>> THEN TRUE
    ELSE \E i \in DOMAIN admin_users : admin_users[i] = user_id

\* reel ids a command can name: 0, the ids of the rows, and ids of no row yet
ReelIds == 0 .. MaxReels


DuePost(ps, reel_id, t) ==
    \E i \in PostsOf(ps, reel_id) : ps[i].scheduled_time <= t

\* --------------------------------------------- orchestrator operations
\* returns the scheduled_posts table afterwards and what the call logged
schedule_reel_update(ps, rs, reel_id, t, cfg) ==
    IF ~GeneratedReelRepository_get_by_id(rs, reel_id)
    THEN [posts |-> ps, sched |-> "not_found"]
    ELSE IF cfg = <<>>
    THEN [posts |-> ps, sched |-> "no_times"]
    ELSE IF PostsOf(ps, reel_id) # {}
    THEN [posts |-> [i \in DOMAIN ps |->
                        IF ps[i].reel_id = reel_id
                        THEN [ps[i] EXCEPT !.scheduled_time =
                                               _get_next_scheduled_time(cfg[1], t)]
                        ELSE ps[i]],
          sched |-> "error"]
    ELSE [posts |-> Append(ps, NewPost(reel_id, _get_next_scheduled_time(cfg[1], t))),
          sched |-> "created"]

schedule_reel(ps, rs, reel_id, t, cfg) ==
    IF ~GeneratedReelRepository_get_by_id(rs, reel_id)
    THEN [posts |-> ps, sched |-> "not_found"]
    ELSE IF cfg = <<>>
    THEN [posts |-> ps, sched |-> "no_times"]
    ELSE LET created == ScheduledPostRepository_create(
                            ps, reel_id, _get_next_scheduled_time(cfg[1], t))
         IN  [posts |-> created.posts,
              sched |-> IF created.ok THEN "created" ELSE "error"]

\* the call writes nothing; the result is how far it got: "published" is the
\* point where the upload and the Instagram publish happen, "error" is the
\* except clause (raised: a statement of the try block raised), which logs
\* and notifies only
publish_reel_to_instagram(rs, fs, reel_id, raised) ==
    IF raised THEN "error"
    ELSE IF ~GeneratedReelRepository_get_by_id(rs, reel_id) THEN "not_found"
    ELSE IF reel_id \notin fs THEN "file_missing"
    ELSE "published"

\* ------------------------------------------- Telegram command handlers
Unchanged(rs, ps, reply) ==
    [reels |-> rs, posts |-> ps, reply |-> reply, sched |-> "not_called"]

approve_effect(rs, ps, user, reel_id, t, cfg) ==
    IF ~_is_admin(user) THEN Unchanged(rs, ps, "unauthorized")
    ELSE IF reel_id = 0 THEN Unchanged(rs, ps, "usage")
    ELSE IF ~GeneratedReelRepository_get_by_id(rs, reel_id)
    THEN Unchanged(rs, ps, "not_found")
    ELSE LET rs2 == GeneratedReelRepository_update_status(rs, reel_id, "approved", t)
             s == schedule_reel(ps, rs2, reel_id, t, cfg)
         IN  [reels |-> rs2, posts |-> s.posts,
              reply |-> "approved_scheduled", sched |-> s.sched]

approve_reel(rs, ps, reel_id, t, cfg) ==
    LET rs2 == GeneratedReelRepository_update_status(rs, reel_id, "approved", t)
        s == schedule_reel(ps, rs2, reel_id, t, cfg)
    IN  [reels |-> rs2, posts |-> s.posts,
         reply |-> "approved_scheduled", sched |-> s.sched]

\* the part of reject / button_reject after the reel was found
reject_found_keep_schedule(rs, ps, reel_id, t) ==
    [reels |-> GeneratedReelRepository_update_status(rs, reel_id, "rejected", t),
     posts |-> ps, reply |-> "rejected_deleted", sched |-> "not_called"]

reject_found(rs, ps, reel_id, t) ==
    LET scheduled == rs[reel_id].status = "approved" /\ PostsOf(ps, reel_id) # {}
    IN  [reels |-> GeneratedReelRepository_update_status(rs, reel_id, "rejected", t),
         posts |-> IF scheduled THEN DeleteFirstPost(ps, reel_id) ELSE ps,
         reply |-> "rejected_deleted",
         sched |-> IF scheduled THEN "deleted" ELSE "not_called"]

reject_effect(rs, ps, user, reel_id, t) ==
    IF ~_is_admin(user) THEN Unchanged(rs, ps, "unauthorized")
    ELSE IF reel_id = 0 THEN Unchanged(rs, ps, "usage")
    ELSE IF ~GeneratedReelRepository_get_by_id(rs, reel_id)
    THEN Unchanged(rs, ps, "not_found")
    ELSE reject_found(rs, ps, reel_id, t)

button_reject_effect_keep_schedule(rs, ps, reel_id, t) ==
    IF ~GeneratedReelRepository_get_by_id(rs, reel_id)
    THEN Unchanged(rs, ps, "not_found")
    ELSE reject_found_keep_schedule(rs, ps, reel_id, t)

button_reject_effect(rs, ps, reel_id, t) ==
    IF ~GeneratedReelRepository_get_by_id(rs, reel_id)
    THEN Unchanged(rs, ps, "not_found")
    ELSE reject_found(rs, ps, reel_id, t)

deleteschedule_effect(rs, ps, user, reel_id) ==
    IF ~_is_admin(user) THEN Unchanged(rs, ps, "unauthorized")
    ELSE IF PostsOf(ps, reel_id) = {} THEN Unchanged(rs, ps, "not_scheduled")
    ELSE [reels |-> rs, posts |-> DeleteFirstPost(ps, reel_id),
          reply |-> "removed", sched |-> "deleted"]

\* [reply, pub]
post_now_effect(rs, fs, user, reel_id, raised) ==
    IF ~_is_admin(user) THEN [reply |-> "unauthorized", pub |-> "not_called"]
    ELSE IF reel_id = 0 THEN [reply |-> "usage", pub |-> "not_called"]
    ELSE [reply |-> "published", pub |-> publish_reel_to_instagram(rs, fs, reel_id, raised)]

\* ------------------------------------------------- content generation
\* rows of the asset tables
Video(duration) == [duration |-> duration, usage_count |-> 0, last_used_at |-> <<>>]
Music(duration) == [duration |-> duration, usage_count |-> 0, last_used_at |-> <<>>]
Quote == [usage_count |-> 0, last_used_at |-> <<>>]

\* Video(duration=30) / Music(duration=30) rows added for downloaded files
DownloadedDuration == 30

\* the asset tables generation starts with: none, or a stocked library whose
\* second video is longer than 1.2 times the only music track
EmptyTable == <<>>
StockVideos == (1 :> Video(1)) @@ (2 :> Video(2))
StockMusic == (1 :> Music(1))
StockQuotes == (1 :> Quote)

Libraries ==
    { [videos |-> EmptyTable, music |-> EmptyTable, quotes |-> EmptyTable],
      [videos |-> StockVideos, music |-> StockMusic, quotes |-> StockQuotes] }

\* what a download yields (file names and quote text): all three held by the
\* stocked tables, or none of them
Downloads ==
    { [video |-> 1, music |-> 1, quote |-> 1], [video |-> 3, music |-> 3, quote |-> 3] }

\* the reel tables a generation run can find
InitialReelRows(t) ==
    { [status |-> "pending", approved_at |-> <<>>, quality_score |-> result_quality_score],
      [status |-> "approved", approved_at |-> <<t>>, quality_score |-> result_quality_score],
      [status |-> "rejected", approved_at |-> <<>>, quality_score |-> result_quality_score] }

InitialReels(t) == UNION { [1 .. n -> InitialReelRows(t)] : n \in 0 .. (MaxReels + 1) }

\* rows the reel table can hold during a generation run
GenMaxReels == MaxReels + 2

\* count arguments of a generate_content call made from the command line
Counts == 1 .. queue_target

NoStep ==
    [op |-> "none", path |-> "none", outcome |-> "none", requested |-> 0,
     video |-> 0, music |-> 0, quote |-> 0, rendered |-> FALSE,
     acceptable |-> FALSE, reel_id |-> 0, raised |-> FALSE, score |-> 0,
     listed |-> FALSE]

NoFiring == publish_runs = 0

NoJobStep ==
    [job |-> "none", raised |-> FALSE, notified |-> <<>>, handed |-> <<>>,
     outcomes |-> <<>>]

NoJobs ==
    /\ telegram_bot = TRUE
    /\ calendar = <<>>
    /\ job_step = NoJobStep

NoReschedule ==
    [user |-> 0, reel_id |-> <<>>, typed |-> <<>>, reply |-> "none"]

NoSelection ==
    [state |-> "idle", attempts |-> 0, video |-> <<>>, music |-> <<>>,
     quote |-> <<>>, result |-> <<>>]

NoWeights == assets = <<>> /\ weights = <<>>

\* the coroutines that touch persistence
JobCallbacks ==
    {"generate_content_job", "queue_check_job", "calendar_check_job",
     "publish_scheduled_job"}

Commands == {"approve", "reject"}

SessionOps ==
    JobCallbacks \cup Commands
        \cup {"generate_content", "schedule_reel", "publish_reel_to_instagram"}

\* a coroutine that has completed: the session it had opened for itself
\* (none, open, closed) and whether it left through an exception
OpRun(op, own, raised) == [op |-> op, own |-> own, raised |-> raised]

\* where each coroutine is (idle, or suspended at an await), the coroutines
\* whose own session is open, and the coroutine that completed last
NoOps ==
    [phase |-> [op \in SessionOps |-> "idle"], own |-> {},
     last |-> OpRun("none", "none", FALSE)]

\* the orchestrator after start(): jobs are scheduled, the listener polls when
\* a telegram_bot was given
UpAndRunning ==
    /\ running = TRUE
    /\ scheduler = "running"
    /\ session = "open"
    /\ polling = telegram_bot
    /\ coroutines = NoOps

\* publish_reel: where the call is (idle, polling, returned, raised), its
\* max_polls, the polls made, the API calls made, what the last poll gave and
\* the exception the call left with
NoPoll == [kind |-> "none", status |-> "none", text |-> <<>>]

NoPublishReel ==
    [pc |-> "idle", max_polls |-> 0, attempt |-> 0, calls |-> <<>>,
     last |-> NoPoll, error |-> "none"]

\* LLMProvider.generate: whether the call returned or raised, its quote, what
\* the generators it called gave (<<>>: not called), the branch that returned
\* and the caption returned (<<>>: none)
NoCaptionCall ==
    [state |-> "idle", quote |-> "none", primary |-> <<>>, fallback |-> <<>>,
     source |-> "none", caption |-> <<>>]

NoServices == ig_call = NoPublishReel /\ llm_call = NoCaptionCall

NoAux ==
    /\ NoFiring
    /\ NoJobs
    /\ resched_step = NoReschedule
    /\ selection = NoSelection
    /\ NoWeights
    /\ UpAndRunning
    /\ NoServices

NoGeneration ==
    /\ videos = EmptyTable
    /\ music = EmptyTable
    /\ quotes = EmptyTable
    /\ use_ai_prompt = FALSE
    /\ gen_count = 0
    /\ results = <<>>
    /\ gen_step = NoStep

VideoRepository_increment_usage_down(vs, video_id, t) ==
    IF video_id \in DOMAIN vs
    THEN [vs EXCEPT ![video_id].usage_count = @ - 1, ![video_id].last_used_at = <<t>>]
    ELSE vs

VideoRepository_increment_usage(vs, video_id, t) ==
    IF video_id \in DOMAIN vs
    THEN [vs EXCEPT ![video_id].usage_count = @ + 1, ![video_id].last_used_at = <<t>>]
    ELSE vs

MusicRepository_increment_usage(ms, music_id, t) ==
    IF music_id \in DOMAIN ms
    THEN [ms EXCEPT ![music_id].usage_count = @ + 1, ![music_id].last_used_at = <<t>>]
    ELSE ms

QuoteRepository_increment_usage(qs, quote_id, t) ==
    IF quote_id \in DOMAIN qs
    THEN [qs EXCEPT ![quote_id].usage_count = @ + 1, ![quote_id].last_used_at = <<t>>]
    ELSE qs

\* video.duration > music.duration * 1.2, tested when both durations are set
is_valid_combination(vs, ms, v, m) ==
    ~( /\ vs[v].duration # 0
       /\ ms[m].duration # 0
       /\ 5 * vs[v].duration > 6 * ms[m].duration )

\* the values find_matching_combination can return: a valid combination one
\* of its 5 attempts drew, or None (<<>>) when every attempt can draw an
\* invalid one (a table is empty, or some video is too long for some track)
find_matching_combination(vs, ms, qs) ==
    { << [video |-> v, music |-> m, quote |-> q] >> :
        << v, m, q >> \in { x \in (DOMAIN vs) \X (DOMAIN ms) \X (DOMAIN qs) :
                               is_valid_combination(vs, ms, x[1], x[2]) } }
    \cup ( IF \/ DOMAIN vs = {} \/ DOMAIN ms = {} \/ DOMAIN qs = {}
              \/ \E v \in DOMAIN vs, m \in DOMAIN ms : ~is_valid_combination(vs, ms, v, m)
           THEN { <<>> }
           ELSE {} )

\* s: [videos, music, quotes, reels, files, results, step], the tables and the
\* results list as the running iteration has left them so far
update_usage_counts(s, c, t) ==
    [s EXCEPT !.videos = VideoRepository_increment_usage(@, c.video, t),
              !.music = MusicRepository_increment_usage(@, c.music, t),
              !.quotes = QuoteRepository_increment_usage(@, c.quote, t)]

\* obj.usage_count = (obj.usage_count or 0) + 1 for the three objects
update_usage_manually(s, c) ==
    [s EXCEPT !.videos[c.video].usage_count = @ + 1,
              !.music[c.music].usage_count = @ + 1,
              !.quotes[c.quote].usage_count = @ + 1]

\* except Exception: log, notify, go on with the next i
except_clause_reraise(s, outcome) ==
    [s EXCEPT !.step.outcome = outcome, !.step.raised = TRUE]

except_clause(s, outcome) ==
    [s EXCEPT !.step.outcome = outcome]

\* `continue`
continue(s, outcome) ==
    [s EXCEPT !.step.outcome = outcome]

\* reel_repo.create(status="pending"), the usage update, the preview and
\* results.append. When the commit of the usage update fails the counts stay
\* as they were: update_usage_counts logs that and the iteration goes on,
\* while on the AI branch the exception leaves the try block before
\* results.append and the except clause logs it.
save(s, c, usage_committed, t) ==
    LET rs == GeneratedReelRepository_create(s.reels, result_quality_score)
        used == IF ~usage_committed THEN s
                ELSE IF s.step.path = "selection"
                THEN update_usage_counts(s, c, t)
                ELSE update_usage_manually(s, c)
        listed == s.step.path = "selection" \/ usage_committed
    IN  [used EXCEPT !.reels = rs,
                     !.files = @ \cup {Len(rs)},
                     !.results = IF listed THEN Append(@, Len(rs)) ELSE @,
                     !.step.outcome = "created",
                     !.step.reel_id = Len(rs),
                     !.step.listed = listed]

\* the loop body from video_generator.generate on; env says what the
\* collaborators do: rendered (generate returned), score (the quality_score
\* check_integrity measured), persisted (the commit of the new row went
\* through), usage_committed (the commit of the usage update went through)
render_and_save_ungated(s, c, env, t) ==
    IF ~env.rendered THEN except_clause(s, "render_error")
    ELSE LET s1 == [s EXCEPT !.step.rendered = TRUE, !.step.score = env.score,
                             !.step.acceptable =
                                 is_acceptable(env.score, quality_threshold)]
         IN  IF ~env.persisted THEN except_clause(s1, "persistence_error")
             ELSE save(s1, c, env.usage_committed, t)

render_and_save_eager(s, c, env, t) ==
    IF ~env.rendered THEN except_clause(s, "render_error")
    ELSE LET s1 == [s EXCEPT !.step.rendered = TRUE, !.step.score = env.score]
             used == IF s.step.path = "selection"
                     THEN update_usage_counts(s1, c, t)
                     ELSE update_usage_manually(s1, c)
         IN  IF ~is_acceptable(env.score, quality_threshold)
             THEN continue(used, "quality_rejected")
             ELSE LET s2 == [s1 EXCEPT !.step.acceptable = TRUE]
                  IN  IF ~env.persisted THEN except_clause(s2, "persistence_error")
                      ELSE save(s2, c, env.usage_committed, t)

render_and_save(s, c, env, t) ==
    IF ~env.rendered THEN except_clause(s, "render_error")
    ELSE LET s1 == [s EXCEPT !.step.rendered = TRUE, !.step.score = env.score]
         IN  IF ~is_acceptable(env.score, quality_threshold)
             THEN continue(s1, "quality_rejected")
             ELSE LET s2 == [s1 EXCEPT !.step.acceptable = TRUE]
                  IN  IF ~env.persisted THEN except_clause(s2, "persistence_error")
                      ELSE save(s2, c, env.usage_committed, t)

\* session.query(...).filter_by(...).first(), and session.add when there is
\* no such row
AddIfMissing(table, name, row) ==
    IF name \in DOMAIN table THEN table ELSE (name :> row) @@ table

\* the AI-idea / download branch: env.download is <<>> when a path came back
\* None, else the names of the files and the quote text
ai_content(s, env, t) ==
    LET s0 == [s EXCEPT !.step.path = "ai"]
        c == env.download[1]
    IN  IF env.download = <<>> THEN continue(s0, "download_failed")
        ELSE render_and_save(
                 [s0 EXCEPT !.videos = AddIfMissing(@, c.video, Video(DownloadedDuration)),
                            !.music = AddIfMissing(@, c.music, Music(DownloadedDuration)),
                            !.quotes = AddIfMissing(@, c.quote, Quote),
                            !.step.video = c.video,
                            !.step.music = c.music,
                            !.step.quote = c.quote],
                 c, env, t)

\* the selection branch: env.combination is what find_matching_combination
\* returned
selected_content(s, env, t) ==
    LET s0 == [s EXCEPT !.step.path = "selection"]
    IN  IF env.combination = <<>> THEN continue(s0, "selection_exhausted")
        ELSE LET c == env.combination[1]
             IN  render_and_save(
                     [s0 EXCEPT !.step.video = c.video,
                                !.step.music = c.music,
                                !.step.quote = c.quote],
                     c, env, t)

\* one pass through the body of the for loop
generate_content(s, ai, env, t) ==
    IF ai THEN ai_content(s, env, t) ELSE selected_content(s, env, t)

\* what the collaborators can do during one pass; there is a score
\* only for a file that was rendered
LoopEnv(ai, vs, ms, qs) ==
    { env \in [download : IF ai THEN { <<>> } \cup { << d >> : d \in Downloads }
                                ELSE { <<>> },
               combination : IF ai THEN { <<>> }
                                   ELSE find_matching_combination(vs, ms, qs),
               rendered : BOOLEAN, score : {0} \cup Scores, persisted : BOOLEAN,
               usage_committed : BOOLEAN] :
        /\ env.rendered <=> env.score \in Scores
        /\ ~env.usage_committed
              => env.persisted /\ is_acceptable(env.score, quality_threshold) }

\* --------------------------------------------------------------- Init
Init ==
    /\ reels = <<>>
    /\ posts = <<>>
    /\ files = {}
    /\ now \in StartTimes
    /\ started = now
    /\ post_times \in PostTimesChoices
    /\ gen_remaining = 0
    /\ lastOp = NoOp
    /\ nst_cfg = <<>>
    /\ nst_result = <<>>
    /\ NoGeneration
    /\ NoAux

\* ------------------------------------------------------------ actions
Apply(op, user, reel_id, e) ==
    /\ reels' = e.reels
    /\ posts' = e.posts
    /\ lastOp' = [op |-> op, user |-> user, reel_id |-> reel_id,
                  prev |-> StatusOf(reels, reel_id),
                  reply |-> e.reply, sched |-> e.sched, pub |-> "not_called",
                  handed |-> {}]
    /\ UNCHANGED << files, now, started, post_times, gen_remaining, nst_cfg, auxvars, nst_result, genvars >>

approve ==
    \E user \in Users, reel_id \in ReelIds :
        Apply("approve", user, reel_id,
              approve_effect(reels, posts, user, reel_id, now, post_times))

button_approve ==
    \E user \in Users, reel_id \in ReelIds :
        Apply("button_approve", user, reel_id,
              approve_reel(reels, posts, reel_id, now, post_times))

reject ==
    \E user \in Users, reel_id \in ReelIds :
        Apply("reject", user, reel_id,
              reject_effect(reels, posts, user, reel_id, now))

button_reject ==
    \E user \in Users, reel_id \in ReelIds :
        Apply("button_reject", user, reel_id,
              button_reject_effect(reels, posts, reel_id, now))

deleteschedule ==
    \E user \in Users, reel_id \in ReelIds :
        Apply("deleteschedule", user, reel_id,
              deleteschedule_effect(reels, posts, user, reel_id))

post_now ==
    \E user \in Users, reel_id \in ReelIds, raised \in BOOLEAN :
        LET e == post_now_effect(reels, files, user, reel_id, raised)
        IN  /\ lastOp' = [op |-> "post_now", user |-> user, reel_id |-> reel_id,
                          prev |-> StatusOf(reels, reel_id),
                          reply |-> e.reply, sched |-> "not_called", pub |-> e.pub,
                          handed |-> IF e.pub = "not_called" THEN {} ELSE {reel_id}]
            /\ UNCHANGED << reels, posts, files, now, started, post_times,
                            gen_remaining, nst_cfg, auxvars, nst_result, genvars >>

JobOp(op, reel_id, reply) ==
    [op |-> op, user |-> 0, reel_id |-> reel_id, prev |-> "none",
     reply |-> reply, sched |-> "not_called", pub |-> "not_called",
     handed |-> {}]

\* ScheduledPostRepository has no attribute "model": building the query
\* raises AttributeError, which the job's except clause logs; the loop that
\* hands post.reel_id to publish_reel_to_instagram is not reached
publish_scheduled_job ==
    /\ lastOp' = JobOp("publish_scheduled_job", 0, "error")
    /\ UNCHANGED << reels, posts, files, now, started, post_times,
                    gen_remaining, nst_cfg, auxvars, nst_result, genvars >>

generate_content_job ==
    /\ gen_remaining = 0
    /\ LET queue_size ==
               Cardinality(GeneratedReelRepository_get_by_status(reels, "pending"))
               + Cardinality(GeneratedReelRepository_get_by_status(reels, "approved"))
       IN  IF queue_size < queue_target
           THEN /\ gen_remaining' = queue_target - queue_size
                /\ lastOp' = JobOp("generate_content_job", 0, "generating")
           ELSE /\ gen_remaining' = gen_remaining
                /\ lastOp' = JobOp("generate_content_job", 0, "queue_full")
    /\ UNCHANGED << reels, posts, files, now, started, post_times, nst_cfg, auxvars, nst_result, genvars >>

\* one iteration of the loop of generate_content: it either ends in a
\* "continue" / a caught exception, or persists a pending reel whose file exists
generate_content_iteration ==
    /\ gen_remaining > 0
    /\ gen_remaining' = gen_remaining - 1
    /\ \E created \in BOOLEAN :
        IF created /\ Len(reels) < MaxReels
        THEN /\ reels' = GeneratedReelRepository_create(reels, result_quality_score)
             /\ files' = files \cup {Len(reels) + 1}
             /\ lastOp' = JobOp("generate_content", Len(reels) + 1, "created")
        ELSE /\ UNCHANGED << reels, files >>
             /\ lastOp' = JobOp("generate_content", 0, "skipped")
    /\ UNCHANGED << posts, now, started, post_times, nst_cfg, auxvars, nst_result, genvars >>

\* the rendered file disappears from disk
ArtifactRemoved ==
    \E reel_id \in files :
        /\ files' = files \ {reel_id}
        /\ UNCHANGED << reels, posts, now, started, post_times, gen_remaining,
                        lastOp, nst_cfg, auxvars, nst_result, genvars >>

Tick ==
    /\ now - started < MaxElapsed
    /\ now' = now + 1
    /\ UNCHANGED << reels, posts, files, started, post_times, gen_remaining,
                    lastOp, nst_cfg, auxvars, nst_result, genvars >>

Next ==
    \/ approve
    \/ button_approve
    \/ reject
    \/ button_reject
    \/ deleteschedule
    \/ post_now
    \/ publish_scheduled_job
    \/ generate_content_job
    \/ generate_content_iteration
    \/ ArtifactRemoved
    \/ Tick

Spec == Init /\ [][Next]_vars

\* ------------------------------------- _get_next_scheduled_time alone
InitNext ==
    /\ reels = <<>>
    /\ posts = <<>>
    /\ files = {}
    /\ now \in 0 .. (TicksPerWeek - 1)
    /\ started = now
    /\ post_times = <<>>
    /\ gen_remaining = 0
    /\ lastOp = NoOp
    /\ nst_cfg \in [day : Days, time : Minutes]
    /\ nst_result = <<>>
    /\ NoGeneration
    /\ NoAux

EvaluateNextScheduledTime ==
    /\ nst_result = <<>>
    /\ nst_result' = << _get_next_scheduled_time(nst_cfg, now) >>
    /\ UNCHANGED << reels, posts, files, now, started, post_times,
                    gen_remaining, lastOp, nst_cfg, auxvars, genvars >>

NextNext == EvaluateNextScheduledTime

SpecNext == InitNext /\ [][NextNext]_vars


\* ------------------------------------------------ generation runs alone
InitGen ==
    /\ now \in StartTimes
    /\ started = now
    /\ reels \in InitialReels(now)
    /\ files = DOMAIN reels
    /\ posts = <<>>
    /\ post_times = <<>>
    /\ gen_remaining = 0
    /\ lastOp = NoOp
    /\ nst_cfg = <<>>
    /\ nst_result = <<>>
    /\ \E library \in Libraries :
           /\ videos = library.videos
           /\ music = library.music
           /\ quotes = library.quotes
    /\ use_ai_prompt \in BOOLEAN
    /\ gen_count = 0
    /\ results = <<>>
    /\ gen_step = NoStep
    /\ NoAux

\* generate_content is entered with the given count
StartBatch(op, count) ==
    /\ gen_count' = count
    /\ gen_remaining' = count
    /\ results' = <<>>
    /\ gen_step' = [NoStep EXCEPT !.op = op, !.requested = count]

\* the interval job; a run starts only after the previous run has returned
generate_content_job_run_pending_only ==
    /\ gen_remaining = 0
    /\ LET queue_size ==
               Cardinality(GeneratedReelRepository_get_by_status(reels, "pending"))
       IN  IF queue_size < queue_target
           THEN StartBatch("generate_content_job", queue_target - queue_size)
           ELSE /\ gen_step' = [NoStep EXCEPT !.op = "generate_content_job"]
                /\ UNCHANGED << gen_count, gen_remaining, results >>
    /\ UNCHANGED << reels, posts, files, now, started, post_times, lastOp,
                    nst_cfg, auxvars, nst_result, videos, music, quotes, use_ai_prompt >>

generate_content_job_run ==
    /\ gen_remaining = 0
    /\ LET queue_size ==
               Cardinality(GeneratedReelRepository_get_by_status(reels, "pending"))
               + Cardinality(GeneratedReelRepository_get_by_status(reels, "approved"))
       IN  IF queue_size < queue_target
           THEN StartBatch("generate_content_job", queue_target - queue_size)
           ELSE /\ gen_step' = [NoStep EXCEPT !.op = "generate_content_job"]
                /\ UNCHANGED << gen_count, gen_remaining, results >>
    /\ UNCHANGED << reels, posts, files, now, started, post_times, lastOp,
                    nst_cfg, auxvars, nst_result, videos, music, quotes, use_ai_prompt >>

\* main.py --generate N
main_generate_content ==
    /\ gen_remaining = 0
    /\ \E count \in Counts : StartBatch("main", count)
    /\ UNCHANGED << reels, posts, files, now, started, post_times, lastOp,
                    nst_cfg, auxvars, nst_result, videos, music, quotes, use_ai_prompt >>

generate_content_loop ==
    /\ gen_remaining > 0
    /\ \E env \in LoopEnv(use_ai_prompt, videos, music, quotes) :
          LET s == generate_content(
                       [videos |-> videos, music |-> music, quotes |-> quotes,
                        reels |-> reels, files |-> files, results |-> results,
                        step |-> [NoStep EXCEPT !.op = "generate_content"]],
                       use_ai_prompt, env, now)
          IN  /\ Len(s.reels) <= GenMaxReels
              /\ videos' = s.videos
              /\ music' = s.music
              /\ quotes' = s.quotes
              /\ reels' = s.reels
              /\ files' = s.files
              /\ results' = s.results
              /\ gen_step' = s.step
              /\ gen_remaining' = IF s.step.raised THEN 0 ELSE gen_remaining - 1
    /\ UNCHANGED << posts, now, started, post_times, lastOp, nst_cfg, auxvars, nst_result,
                    use_ai_prompt, gen_count >>

NextGen ==
    \/ generate_content_job_run
    \/ main_generate_content
    \/ generate_content_loop
    \/ Tick

SpecGen == InitGen /\ [][NextGen]_vars

\* ------------------------- commands arrive while the job's batch runs
\* The job and the command handlers are coroutines of one event loop. Inside
\* a batch generate_content awaits in two places only: send_reel_preview
\* after it created a reel, and send_notification in its except clause. A
\* command is handled while no batch runs or at one of these awaits.
AtAwait ==
    \/ gen_remaining = 0
    \/ gen_step.outcome \in {"created", "render_error", "persistence_error"}

approve_at_await == AtAwait /\ approve

reject_at_await == AtAwait /\ reject

InitRace ==
    /\ now \in StartTimes
    /\ started = now
    /\ reels \in InitialReels(now)
    /\ files = DOMAIN reels
    /\ posts = <<>>
    /\ post_times \in PostTimesChoices
    /\ gen_remaining = 0
    /\ lastOp = NoOp
    /\ nst_cfg = <<>>
    /\ nst_result = <<>>
    /\ videos = StockVideos
    /\ music = StockMusic
    /\ quotes = StockQuotes
    /\ use_ai_prompt = FALSE
    /\ gen_count = 0
    /\ results = <<>>
    /\ gen_step = NoStep
    /\ NoAux

NextRace ==
    \/ generate_content_job_run
    \/ generate_content_loop
    \/ approve_at_await
    \/ reject_at_await

SpecRace == InitRace /\ [][NextRace]_vars

\* ------------------------------------------- the publish job keeps firing
\* one firing of the CronTrigger job _schedule_jobs adds for a post time:
\* the run of publish_scheduled_job, counted; with no post time configured
\* no such job is added
publish_scheduled_job_fires ==
    /\ post_times # <<>>
    /\ lastOp' = JobOp("publish_scheduled_job", 0, "error")
    /\ publish_runs' = 1 - publish_runs
    /\ UNCHANGED << reels, posts, files, now, started, post_times,
                    gen_remaining, nst_cfg, nst_result, genvars, jobvars,
                    resched_step, selection, weightvars,
                    runvars, servicevars >>

NextLive ==
    \/ approve
    \/ button_approve
    \/ reject
    \/ button_reject
    \/ deleteschedule
    \/ post_now
    \/ publish_scheduled_job_fires
    \/ generate_content_job
    \/ generate_content_iteration
    \/ ArtifactRemoved
    \/ Tick

\* the scheduler runs the cron job at every post time of every day, for as
\* long as the bot runs
SpecLive == Init /\ [][NextLive]_vars /\ WF_vars(publish_scheduled_job_fires)

\* ------------------------------------------------------ the job callbacks
\* rows of content_calendar: date, status and the nullable reel_id
CalendarEntries ==
    [date : { t \in StartTimes \cup { t - 1 : t \in StartTimes }
                               \cup { t + 1 : t \in StartTimes } : TRUE },
     status : {"pending", "approved"},
     reel_id : { <<>> } \cup { << r >> : r \in 1 .. MaxReels }]

Calendars(n) == UNION { [1 .. k -> CalendarEntries] : k \in 0 .. n }

\* queue_check_job warns when fewer than this many reels are pending
low_queue == 3

\* `if self.telegram_bot: await self.telegram_bot.send_notification(..)`:
\* the levels handed to the sink
send_notification(bot, level) == IF bot THEN << level >> ELSE <<>>

\* the orders in which .all() can return the rows of set S: the query has no
\* ORDER BY
Orders(S) ==
    { order \in [1 .. Cardinality(S) -> S] :
        \A i, j \in 1 .. Cardinality(S) : i # j => order[i] # order[j] }

\* filter(ContentCalendar.date <= now, ContentCalendar.status == "approved")
due_entries(cal, t) ==
    { i \in DOMAIN cal : cal[i].date <= t /\ cal[i].status = "approved" }

\* publish_scheduled_entry: entries without reel_id are passed over
publish_scheduled_entry(rs, fs, entry, raised) ==
    IF entry.reel_id = <<>> THEN "no_reel"
    ELSE publish_reel_to_instagram(rs, fs, entry.reel_id[1], raised)

\* what publish_reel_to_instagram sends after an outcome
publish_notification(bot, outcome) ==
    IF outcome = "published" THEN send_notification(bot, "success")
    ELSE IF outcome = "error" THEN send_notification(bot, "error")
    ELSE <<>>

RECURSIVE Flatten(_)
Flatten(ss) == IF ss = <<>> THEN <<>> ELSE Head(ss) \o Flatten(Tail(ss))

JobRun(job, raised, notified, handed, outcomes) ==
    [job |-> job, raised |-> raised, notified |-> notified, handed |-> handed,
     outcomes |-> outcomes]

generate_content_job_try ==
    /\ gen_remaining = 0
    /\ \E raised \in BOOLEAN :
          IF raised
          THEN /\ job_step' = JobRun("generate_content_job", TRUE,
                                      send_notification(telegram_bot, "error"),
                                      <<>>, <<>>)
               /\ UNCHANGED << gen_count, gen_remaining, results, gen_step >>
          ELSE /\ job_step' = JobRun("generate_content_job", FALSE, <<>>, <<>>, <<>>)
               /\ LET queue_size ==
                          Cardinality(GeneratedReelRepository_get_by_status(reels, "pending"))
                          + Cardinality(GeneratedReelRepository_get_by_status(reels, "approved"))
                  IN  IF queue_size < queue_target
                      THEN StartBatch("generate_content_job", queue_target - queue_size)
                      ELSE /\ gen_step' = [NoStep EXCEPT !.op = "generate_content_job"]
                           /\ UNCHANGED << gen_count, gen_remaining, results >>
    /\ UNCHANGED << reels, posts, files, now, started, post_times, lastOp,
                    nst_cfg, nst_result, videos, music, quotes, use_ai_prompt,
                    publish_runs, telegram_bot, calendar, resched_step,
                    selection, weightvars,
                    runvars, servicevars >>

queue_check_job ==
    /\ \E raised \in BOOLEAN :
          job_step' =
              IF raised THEN JobRun("queue_check_job", TRUE, <<>>, <<>>, <<>>)
              ELSE IF Cardinality(GeneratedReelRepository_get_by_status(reels, "pending"))
                         < low_queue
              THEN JobRun("queue_check_job", FALSE,
                           send_notification(telegram_bot, "warning"), <<>>, <<>>)
              ELSE JobRun("queue_check_job", FALSE, <<>>, <<>>, <<>>)
    /\ UNCHANGED << corevars, genvars, publish_runs, telegram_bot, calendar,
                    resched_step, selection, weightvars,
                    runvars, servicevars >>

calendar_check_job ==
    /\ \E raised \in BOOLEAN :
          IF raised
          THEN job_step' = JobRun("calendar_check_job", TRUE, <<>>, <<>>, <<>>)
          ELSE \E order \in Orders(due_entries(calendar, now)),
                  failing \in SUBSET due_entries(calendar, now) :
                  LET outcomes == [i \in DOMAIN order |->
                                      publish_scheduled_entry(reels, files,
                                          calendar[order[i]], order[i] \in failing)]
                  IN  /\ \A i \in failing : calendar[i].reel_id # <<>>
                      /\ job_step' =
                             JobRun("calendar_check_job", FALSE,
                                     Flatten([i \in DOMAIN order |->
                                         publish_notification(telegram_bot, outcomes[i])]),
                                     order, outcomes)
    /\ UNCHANGED << corevars, genvars, publish_runs, telegram_bot, calendar,
                    resched_step, selection, weightvars,
                    runvars, servicevars >>

metrics_job ==
    /\ job_step' = JobRun("metrics_job", FALSE, <<>>, <<>>, <<>>)
    /\ UNCHANGED << corevars, genvars, publish_runs, telegram_bot, calendar,
                    resched_step, selection, weightvars,
                    runvars, servicevars >>

\* the AttributeError on ScheduledPostRepository.model is logged
publish_scheduled_job_try ==
    /\ job_step' = JobRun("publish_scheduled_job", TRUE, <<>>, <<>>, <<>>)
    /\ UNCHANGED << corevars, genvars, publish_runs, telegram_bot, calendar,
                    resched_step, selection, weightvars,
                    runvars, servicevars >>

InitJobsWith(entries) ==
    /\ now \in StartTimes
    /\ started = now
    /\ reels \in UNION { [1 .. n -> InitialReelRows(now)] : n \in 0 .. MaxReels }
    /\ files \in SUBSET DOMAIN reels
    /\ posts = <<>>
    /\ post_times = <<>>
    /\ gen_remaining = 0
    /\ lastOp = NoOp
    /\ nst_cfg = <<>>
    /\ nst_result = <<>>
    /\ videos = StockVideos
    /\ music = StockMusic
    /\ quotes = StockQuotes
    /\ use_ai_prompt = FALSE
    /\ gen_count = 0
    /\ results = <<>>
    /\ gen_step = NoStep
    /\ NoFiring
    /\ telegram_bot \in BOOLEAN
    /\ calendar \in Calendars(entries)
    /\ job_step = NoJobStep
    /\ resched_step = NoReschedule
    /\ selection = NoSelection
    /\ NoWeights
    /\ UpAndRunning
    /\ NoServices

InitJobs == InitJobsWith(1)

NextJobs ==
    \/ generate_content_job_try
    \/ generate_content_loop
    \/ queue_check_job
    \/ calendar_check_job
    \/ metrics_job
    \/ publish_scheduled_job_try

SpecJobs == InitJobs /\ [][NextJobs]_vars

\* the calendar job alone, on calendars of up to MaxEntries rows
MaxEntries == 2

InitCalendar == InitJobsWith(MaxEntries)

NextCalendar == calendar_check_job

SpecCalendar == InitCalendar /\ [][NextCalendar]_vars

\* ------------------------------------------------------- start and stop
\* start(): running, the long-lived session, the scheduler, and with a
\* telegram_bot the task that polls for updates
start ==
    /\ ~running
    /\ scheduler = "created"
    /\ running' = TRUE
    /\ session' = "open"
    /\ scheduler' = "running"
    /\ polling' = telegram_bot
    /\ UNCHANGED << corevars, genvars, publish_runs, jobvars, resched_step,
                    selection, weightvars, coroutines, servicevars >>

\* stop(): running = False, scheduler.shutdown(), session.close(). It is
\* called from another coroutine, so a batch of generate_content in flight is
\* suspended at one of its awaits; shutting the scheduler down either lets the
\* job's coroutine run on or cancels it there. Rows already committed stay.
stop ==
    /\ running
    /\ AtAwait
    /\ running' = FALSE
    /\ scheduler' = "shutdown"
    /\ session' = "closed"
    /\ \E cancelled \in BOOLEAN :
          gen_remaining' = IF cancelled THEN 0 ELSE gen_remaining
    /\ UNCHANGED << reels, posts, files, now, started, post_times, lastOp,
                    nst_cfg, nst_result, genvars, publish_runs, jobvars,
                    resched_step, selection, weightvars, polling, coroutines,
                    servicevars >>

\* start_polling leaves `while application.updater.running` and cleans up
start_polling_returns ==
    /\ polling
    /\ polling' = FALSE
    /\ UNCHANGED << corevars, genvars, publish_runs, jobvars, resched_step,
                    selection, weightvars, running, scheduler, session,
                    coroutines, servicevars >>

\* the scheduler runs a job callback when its interval has passed
generate_content_job_fires == scheduler = "running" /\ generate_content_job_try
queue_check_job_fires == scheduler = "running" /\ queue_check_job
calendar_check_job_fires == scheduler = "running" /\ calendar_check_job
metrics_job_fires == scheduler = "running" /\ metrics_job
\* publish_scheduled_job is added once for each configured post time
publish_scheduled_job_try_fires ==
    scheduler = "running" /\ post_times # <<>> /\ publish_scheduled_job_try

\* the listener dispatches an update to its handler
approve_dispatched == polling /\ AtAwait /\ approve
reject_dispatched == polling /\ AtAwait /\ reject

InitStop ==
    /\ now \in StartTimes
    /\ started = now
    /\ reels = <<>>
    /\ files = {}
    /\ posts = <<>>
    /\ post_times \in PostTimesChoices
    /\ gen_remaining = 0
    /\ lastOp = NoOp
    /\ nst_cfg = <<>>
    /\ nst_result = <<>>
    /\ videos = StockVideos
    /\ music = StockMusic
    /\ quotes = StockQuotes
    /\ use_ai_prompt = FALSE
    /\ gen_count = 0
    /\ results = <<>>
    /\ gen_step = NoStep
    /\ NoFiring
    /\ telegram_bot \in BOOLEAN
    /\ calendar = <<>>
    /\ job_step = NoJobStep
    /\ resched_step = NoReschedule
    /\ selection = NoSelection
    /\ NoWeights
    /\ running = FALSE
    /\ scheduler = "created"
    /\ session = "none"
    /\ polling = FALSE
    /\ coroutines = NoOps
    /\ NoServices

NextStop ==
    \/ start
    \/ stop
    \/ start_polling_returns
    \/ generate_content_job_fires
    \/ generate_content_loop
    \/ queue_check_job_fires
    \/ calendar_check_job_fires
    \/ metrics_job_fires
    \/ publish_scheduled_job_try_fires
    \/ approve_dispatched
    \/ reject_dispatched

SpecStop == InitStop /\ [][NextStop]_vars

\* --------------------------------------------------------- the sessions
\* the coroutines that call get_session() for themselves; the job callbacks
\* and generate_content work on self.session, which start() opened
own_session(op) ==
    op \in {"approve", "reject", "schedule_reel", "publish_reel_to_instagram"}

\* the coroutines that await op
callers(op) ==
    CASE op = "generate_content" -> {"generate_content_job"}
      [] op = "schedule_reel" -> {"approve"}
      [] op = "publish_reel_to_instagram" -> {"calendar_check_job"}
      [] OTHER -> {}

\* whether op can reach an await between taking its session and leaving:
\* the handlers await reply_text, two jobs await the coroutine they call,
\* publish_scheduled_job raises before its loop, the others await the
\* telegram_bot when there is one
awaits(op, bot) ==
    CASE op \in Commands \cup {"generate_content_job", "calendar_check_job"} -> TRUE
      [] op = "publish_scheduled_job" -> FALSE
      [] OTHER -> bot

\* what `finally: session.close()` leaves of the session op took for itself
closed(op) == IF own_session(op) THEN "closed" ELSE "none"

\* a coroutine is started and runs to its first await, or to its end when it
\* reaches none
coroutine_starts ==
    /\ \E op \in SessionOps, awaited \in BOOLEAN, raised \in BOOLEAN :
          /\ coroutines.phase[op] = "idle"
          /\ op \in JobCallbacks => scheduler = "running"
          /\ op \in Commands => polling
          /\ callers(op) # {} => \E c \in callers(op) : coroutines.phase[c] = "awaiting"
          /\ awaited => awaits(op, telegram_bot)
          /\ op \in Commands => awaited
          /\ op = "publish_scheduled_job" => raised
          /\ coroutines' =
                IF awaited
                THEN [coroutines EXCEPT
                         !.phase[op] = "awaiting",
                         !.own = IF own_session(op) THEN @ \cup {op} ELSE @]
                ELSE [coroutines EXCEPT !.last = OpRun(op, closed(op), raised)]
    /\ UNCHANGED << corevars, genvars, publish_runs, jobvars, resched_step,
                    selection, weightvars, running, scheduler, session, polling,
                    servicevars >>

\* a suspended coroutine is resumed and runs to its end, through the except
\* clause when a statement raised, and through finally where it has one
coroutine_returns ==
    /\ \E op \in SessionOps, raised \in BOOLEAN :
          /\ coroutines.phase[op] = "awaiting"
          /\ \A callee \in SessionOps :
                op \in callers(callee) => coroutines.phase[callee] = "idle"
          /\ coroutines' = [coroutines EXCEPT
                               !.phase[op] = "idle",
                               !.own = @ \ {op},
                               !.last = OpRun(op, closed(op), raised)]
    /\ UNCHANGED << corevars, genvars, publish_runs, jobvars, resched_step,
                    selection, weightvars, running, scheduler, session, polling,
                    servicevars >>

NextSessions ==
    \/ start
    \/ stop
    \/ start_polling_returns
    \/ coroutine_starts
    \/ coroutine_returns

SpecSessions == InitStop /\ [][NextSessions]_vars

\* ------------------------------------------ InstagramService.publish_reel
\* the largest max_polls a call is given (the default is 60)
MaxPolls == 5

\* the "status" field of a container
ContainerStatuses ==
    {"FINISHED", "ERROR", "FAILED", "IN_PROGRESS", "EXPIRED", "PUBLISHED"}

\* what the server can send with a response that is not ok: get_status puts
\* it into the text of the exception it raises
ResponseBodies == { <<>>, << "Processing failed" >> }

\* what one call of get_status gives: a status, or an exception whose text is
\* "Status check failed (..): " followed by the response body
StatusResults ==
    { [kind |-> "status", status |-> st, text |-> <<>>] : st \in ContainerStatuses }
        \cup { [kind |-> "error", status |-> "none",
                text |-> << "Status check failed" >> \o body] :
                 body \in ResponseBodies }

\* `phrase in str(e)`
Contains(text, phrase) == \E i \in DOMAIN text : text[i] = phrase

\* the call has left with an exception
Raise(call, error) == [call EXCEPT !.pc = "raised", !.error = error]

\* the else clause of the for loop
did_not_finish(call) ==
    IF call.attempt = call.max_polls THEN Raise(call, "did_not_finish") ELSE call

\* publish_container, after the loop was left through break
publish_container(call, published) ==
    LET c == [call EXCEPT !.calls = Append(@, "publish_container")]
    IN  IF published THEN [c EXCEPT !.pc = "returned"] ELSE Raise(c, "publish")

\* one pass of `for attempt in range(max_polls)`, with what the except
\* clause does to an exception raised inside the try block
poll_once(call, result, published) ==
    LET c == [call EXCEPT !.attempt = @ + 1,
                          !.calls = Append(@, "get_status"),
                          !.last = result]
    IN  IF result.kind = "status"
        THEN IF result.status = "FINISHED"
             THEN publish_container(c, published)
             ELSE IF result.status \in {"ERROR", "FAILED"}
             THEN LET e == << "Processing failed" >>
                  IN  IF Contains(e, "Processing failed")
                      THEN Raise(c, "processing_failed")
                      ELSE did_not_finish(c)
             ELSE did_not_finish(c)
        ELSE IF Contains(result.text, "Processing failed")
             THEN Raise(c, "status_check")
             ELSE did_not_finish(c)

\* the call up to the loop: create_container, and the else clause at once when
\* range(max_polls) is empty
publish_reel ==
    /\ ig_call.pc # "polling"
    /\ \E max_polls \in 0 .. MaxPolls, created \in BOOLEAN :
          LET c == [NoPublishReel EXCEPT !.max_polls = max_polls,
                                         !.calls = << "create_container" >>]
          IN  ig_call' = IF ~created THEN Raise(c, "create")
                         ELSE did_not_finish([c EXCEPT !.pc = "polling"])
    /\ UNCHANGED << corevars, genvars, publish_runs, jobvars, resched_step,
                    selection, weightvars, runvars, llm_call >>

publish_reel_poll ==
    /\ ig_call.pc = "polling"
    /\ \E result \in StatusResults, published \in BOOLEAN :
          ig_call' = poll_once(ig_call, result, published)
    /\ UNCHANGED << corevars, genvars, publish_runs, jobvars, resched_step,
                    selection, weightvars, runvars, llm_call >>

InitPublishReel ==
    /\ now \in StartTimes
    /\ started = now
    /\ reels = <<>>
    /\ posts = <<>>
    /\ files = {}
    /\ post_times = <<>>
    /\ gen_remaining = 0
    /\ lastOp = NoOp
    /\ nst_cfg = <<>>
    /\ nst_result = <<>>
    /\ NoGeneration
    /\ NoAux

NextPublishReel == publish_reel \/ publish_reel_poll

\* time.sleep returns and the requests carry timeouts, so a pass of the loop
\* that was started is completed
SpecPublishReel ==
    InitPublishReel /\ [][NextPublishReel]_vars /\ WF_vars(publish_reel_poll)

\* ------------------------------------------------- LLMProvider.generate
\* captions are sequences of words of 49 characters, joined by single spaces:
\* three of them are within the 150 characters _sanitize_caption allows
MaxCaption == 4
caption_words == 3

Words == {"word", "#a", "#b"}

Captions == UNION { [1 .. n -> Words] : n \in 0 .. MaxCaption }

QuoteTexts == {"quote", "other quote"}

\* what a call of a generator's generate gives: an exception, or a value that
\* is a caption or no string at all (<<>>)
GeneratorResults ==
    { [raised |-> TRUE, value |-> <<>>] }
        \cup { [raised |-> FALSE, value |-> v] :
                 v \in { <<>> } \cup { << c >> : c \in Captions } }

\* re.findall(r'#\w+', caption)
hashtags_of(caption) ==
    SelectSeq(caption, LAMBDA w : w \notin {"word", "..."})

\* caption.replace(ht, "") for every ht of hashtags[3:]
without_extra(caption) ==
    LET hashtags == hashtags_of(caption)
        extra == { hashtags[i] : i \in 4 .. Len(hashtags) }
    IN  SelectSeq(caption, LAMBDA w : w \notin extra)

\* _sanitize_caption: re.findall raises TypeError on a value that is no string
_sanitize_caption(value) ==
    IF value = <<>> THEN [raised |-> TRUE, caption |-> <<>>]
    ELSE LET caption == value[1]
             had_hashtags == Len(hashtags_of(caption)) > 0
             kept == IF Len(hashtags_of(caption)) > 3
                     THEN without_extra(caption) ELSE caption
             tagged == IF ~had_hashtags
                       THEN kept \o << "#Motivation", "#Mindset", "#Success" >>
                       ELSE kept
         IN  [raised |-> FALSE,
              caption |-> << IF Len(tagged) > caption_words
                             THEN SubSeq(tagged, 1, caption_words) \o << "..." >>
                             ELSE tagged >>]

\* f'"{quote}"\n\n#ReelQuote #Motivation'
last_resort(quote) == << quote, "#ReelQuote", "#Motivation" >>

\* the try block of generate, or the one of its except clause
try_generator(result) ==
    IF result.raised THEN [raised |-> TRUE, caption |-> <<>>]
    ELSE _sanitize_caption(result.value)

LLMProvider_generate_reraise(quote, primary, fallback) ==
    LET first == try_generator(primary)
        second == try_generator(fallback)
    IN  IF ~first.raised
        THEN [state |-> "returned", quote |-> quote, primary |-> << primary >>,
              fallback |-> <<>>, source |-> "primary", caption |-> first.caption]
        ELSE IF ~second.raised
        THEN [state |-> "returned", quote |-> quote, primary |-> << primary >>,
              fallback |-> << fallback >>, source |-> "fallback",
              caption |-> second.caption]
        ELSE [state |-> "raised", quote |-> quote, primary |-> << primary >>,
              fallback |-> << fallback >>, source |-> "none", caption |-> <<>>]

LLMProvider_generate(quote, primary, fallback) ==
    LET first == try_generator(primary)
        second == try_generator(fallback)
    IN  IF ~first.raised
        THEN [state |-> "returned", quote |-> quote, primary |-> << primary >>,
              fallback |-> <<>>, source |-> "primary", caption |-> first.caption]
        ELSE IF ~second.raised
        THEN [state |-> "returned", quote |-> quote, primary |-> << primary >>,
              fallback |-> << fallback >>, source |-> "fallback",
              caption |-> second.caption]
        ELSE [state |-> "returned", quote |-> quote, primary |-> << primary >>,
              fallback |-> << fallback >>, source |-> "last_resort",
              caption |-> << last_resort(quote) >>]

generate ==
    /\ llm_call.state = "idle"
    /\ \E quote \in QuoteTexts, primary \in GeneratorResults,
          fallback \in GeneratorResults :
          llm_call' = LLMProvider_generate(quote, primary, fallback)
    /\ UNCHANGED << corevars, genvars, publish_runs, jobvars, resched_step,
                    selection, weightvars, runvars, ig_call >>

NextCaption == generate

SpecCaption == InitPublishReel /\ [][NextCaption]_vars

\* ---------------------------------------------------------- /reschedule
\* scheduling.timezone is ahead of UTC (Europe/Istanbul, UTC+3), here by
\* this many minutes of the model's day
utc_offset == 1

\* what a user can type as <date> <time>: something the regular expressions
\* or the range checks refuse (<<>>), or a day and a minute of that day
TypedTimes ==
    { <<>> } \cup { << [date |-> d, time |-> m] >> :
                      d \in { weekday(t) + k : t \in StartTimes, k \in 0 .. 1 },
                      m \in Minutes }

\* what a user can type as <reel_id>: not a number (<<>>), or a number
TypedReelIds == { <<>> } \cup { << r >> : r \in ReelIds }

\* the typed local time as a naive UTC instant, refused when it is before
\* utcnow; the instant counts from the Monday 00:00 UTC the model counts from
parse_datetime_string(typed, t) ==
    IF typed = <<>> THEN [dt_utc |-> <<>>, error |-> "invalid_datetime"]
    ELSE LET dt == typed[1].date * TicksPerDay + typed[1].time * TicksPerMinute
             dt_utc == dt - utc_offset * TicksPerMinute
         IN  IF dt_utc < t THEN [dt_utc |-> <<>>, error |-> "past"]
             ELSE [dt_utc |-> << dt_utc >>, error |-> "none"]

reschedule_reel_moves(ps, rs, reel_id, dt_utc) ==
    [raised |-> FALSE,
     posts |-> IF PostsOf(ps, reel_id) = {}
               THEN Append(ps, NewPost(reel_id, dt_utc))
               ELSE [i \in DOMAIN ps |->
                       IF ps[i].reel_id = reel_id
                       THEN [ps[i] EXCEPT !.scheduled_time = dt_utc]
                       ELSE ps[i]]]

\* BotOrchestrator has no method reschedule_reel: the call raises
\* AttributeError before anything is read or written
reschedule_reel(ps, rs, reel_id, dt_utc) == [raised |-> TRUE, posts |-> ps]

\* the handler, after _check_admin: argument count, int(args[0]),
\* parse_datetime_string, the call of the orchestrator, the except clauses
reschedule_effect(ps, rs, user, enough, reel_arg, typed, t) ==
    IF ~_is_admin(user) THEN [posts |-> ps, reply |-> "unauthorized"]
    ELSE IF ~enough THEN [posts |-> ps, reply |-> "usage"]
    ELSE IF reel_arg = <<>> THEN [posts |-> ps, reply |-> "invalid_reel_id"]
    ELSE LET parsed == parse_datetime_string(typed, t)
         IN  IF parsed.error # "none" THEN [posts |-> ps, reply |-> parsed.error]
             ELSE LET r == reschedule_reel(ps, rs, reel_arg[1], parsed.dt_utc[1])
                  IN  IF r.raised THEN [posts |-> r.posts, reply |-> "error"]
                      ELSE [posts |-> r.posts, reply |-> "rescheduled"]

\* reels with, for approved ones, the ScheduledPost approval may have created
ScheduledPosts(rs, t) ==
    { ps \in UNION { [1 .. n -> { NewPost(r, st) : r \in DOMAIN rs,
                                                   st \in {t - 1, t + 1} }]
                     : n \in 0 .. Len(rs) } :
        /\ \A i \in DOMAIN ps : rs[ps[i].reel_id].status = "approved"
        /\ \A i, j \in DOMAIN ps : ps[i].reel_id = ps[j].reel_id => i = j }

InitReschedule ==
    /\ now \in StartTimes
    /\ started = now
    /\ reels \in UNION { [1 .. n -> InitialReelRows(now)] : n \in 0 .. MaxReels }
    /\ files = DOMAIN reels
    /\ posts \in ScheduledPosts(reels, now)
    /\ post_times = <<>>
    /\ gen_remaining = 0
    /\ lastOp = NoOp
    /\ nst_cfg = <<>>
    /\ nst_result = <<>>
    /\ NoGeneration
    /\ NoFiring
    /\ NoJobs
    /\ resched_step = NoReschedule
    /\ selection = NoSelection
    /\ NoWeights
    /\ UpAndRunning
    /\ NoServices

reschedule ==
    /\ \E user \in Users, enough \in BOOLEAN, reel_arg \in TypedReelIds,
          typed \in TypedTimes :
          LET e == reschedule_effect(posts, reels, user, enough, reel_arg, typed, now)
          IN  /\ posts' = e.posts
              /\ resched_step' = [user |-> user, reel_id |-> reel_arg,
                                  typed |-> typed, reply |-> e.reply]
    /\ UNCHANGED << reels, files, now, started, post_times, gen_remaining, lastOp,
                    nst_cfg, nst_result, genvars, publish_runs, jobvars, selection,
                    weightvars,
                    runvars, servicevars >>

NextReschedule == reschedule \/ Tick

SpecReschedule == InitReschedule /\ [][NextReschedule]_vars

\* ------------------------------------- find_matching_combination, by attempt
\* for attempt in range(5)
max_attempts == 5

range_exhausted_late(attempts) == attempts > max_attempts

range_exhausted(attempts) == attempts >= max_attempts

\* what select_video / select_music / select_quote can return from a table:
\* None (<<>>) when the table is empty or the query raised, else any row,
\* since every weight is positive
select_by_weighted_random(table) ==
    { <<>> } \cup { << id >> : id \in DOMAIN table }

\* not all([video, music, quote])
all_selected(v, m, q) == v # <<>> /\ m # <<>> /\ q # <<>>

\* is_valid_combination on what the three selections returned
is_valid_selection(vs, ms, v, m, q) ==
    /\ all_selected(v, m, q)
    /\ is_valid_combination(vs, ms, v[1], m[1])

\* asset tables a call can meet; duration 0 stands for a row with no
\* recorded duration
SelectVideos ==
    { EmptyTable, StockVideos, (1 :> Video(2)) @@ (2 :> Video(3)),
      (1 :> Video(0)) @@ (2 :> Video(2)) }

SelectMusic == { EmptyTable, StockMusic, (1 :> Music(0)) }

SelectQuotes == { EmptyTable, StockQuotes }

InitSelect ==
    /\ now \in StartTimes
    /\ started = now
    /\ reels = <<>>
    /\ files = {}
    /\ posts = <<>>
    /\ post_times = <<>>
    /\ gen_remaining = 0
    /\ lastOp = NoOp
    /\ nst_cfg = <<>>
    /\ nst_result = <<>>
    /\ videos \in SelectVideos
    /\ music \in SelectMusic
    /\ quotes \in SelectQuotes
    /\ use_ai_prompt = FALSE
    /\ gen_count = 0
    /\ results = <<>>
    /\ gen_step = NoStep
    /\ NoFiring
    /\ NoJobs
    /\ resched_step = NoReschedule
    /\ selection = NoSelection
    /\ NoWeights
    /\ UpAndRunning
    /\ NoServices

\* find_matching_combination is entered
find_matching_combination_call ==
    /\ selection.state # "trying"
    /\ selection' = [NoSelection EXCEPT !.state = "trying"]
    /\ UNCHANGED << corevars, genvars, publish_runs, jobvars, resched_step,
                    weightvars,
                    runvars, servicevars >>

\* one pass of the for loop, and the fall through to `return None` after
\* the last pass
find_matching_combination_attempt ==
    /\ selection.state = "trying"
    /\ \E v \in select_by_weighted_random(videos),
          m \in select_by_weighted_random(music),
          q \in select_by_weighted_random(quotes) :
          LET attempts == selection.attempts + 1
          IN  selection' =
                 IF is_valid_selection(videos, music, v, m, q)
                 THEN [state |-> "returned", attempts |-> attempts, video |-> v,
                       music |-> m, quote |-> q,
                       result |-> << [video |-> v[1], music |-> m[1], quote |-> q[1]] >>]
                 ELSE [state |-> IF range_exhausted(attempts) THEN "returned"
                                 ELSE "trying",
                       attempts |-> attempts, video |-> v, music |-> m, quote |-> q,
                       result |-> <<>>]
    /\ UNCHANGED << corevars, genvars, publish_runs, jobvars, resched_step,
                    weightvars,
                    runvars, servicevars >>

NextSelect == find_matching_combination_call \/ find_matching_combination_attempt

SpecSelect == InitSelect /\ [][NextSelect]_vars

\* ------------------------------------------------------ calculate_weight
\* weights are fractions num / den with den > 0, compared by cross
\* multiplication
Fraction(num, den) == [num |-> num, den |-> den]

FractionEq(a, b) == a.num * b.den = b.num * a.den

FractionLess(a, b) == a.num * b.den < b.num * a.den

FractionTimes(a, b) == Fraction(a.num * b.num, a.den * b.den)

\* max(a, b)
FractionMax(a, b) == IF FractionLess(a, b) THEN b ELSE a

\* days_since_use < 7
recent_days == 7

\* return max(final_weight, 0.1)
min_weight == Fraction(1, 10)

\* the largest usage_count and the values of days_since_use considered
MaxUsage == 11
DaysSinceUse == { 0, recent_days - 1, recent_days, recent_days + 1 }

\* an asset: usage_count, and last_used_at as None (<<>>) or the whole days
\* (utcnow() - last_used_at).days it lies back
Assets ==
    [usage_count : 0 .. MaxUsage,
     last_used_at : { <<>> } \cup { << d >> : d \in DaysSinceUse }]

recency_factor_half(asset) ==
    IF asset.last_used_at # <<>>
    THEN IF asset.last_used_at[1] < recent_days THEN Fraction(1, 2) ELSE Fraction(1, 1)
    ELSE Fraction(1, 1)

\* 0.2 if days_since_use < 7 else 1.0; 1.0 when last_used_at is None
recency_factor(asset) ==
    IF asset.last_used_at # <<>>
    THEN IF asset.last_used_at[1] < recent_days THEN Fraction(1, 5) ELSE Fraction(1, 1)
    ELSE Fraction(1, 1)

calculate_weight_nofloor(asset) ==
    FractionTimes(Fraction(1, 1 + asset.usage_count), recency_factor(asset))

calculate_weight(asset) ==
    LET base_weight == Fraction(1, 1 + asset.usage_count)
        final_weight == FractionTimes(base_weight, recency_factor(asset))
    IN  FractionMax(final_weight, min_weight)

InitWeight ==
    /\ now \in StartTimes
    /\ started = now
    /\ reels = <<>>
    /\ files = {}
    /\ posts = <<>>
    /\ post_times = <<>>
    /\ gen_remaining = 0
    /\ lastOp = NoOp
    /\ nst_cfg = <<>>
    /\ nst_result = <<>>
    /\ NoGeneration
    /\ NoFiring
    /\ NoJobs
    /\ resched_step = NoReschedule
    /\ selection = NoSelection
    /\ assets \in [1 .. 2 -> Assets]
    /\ weights = <<>>
    /\ UpAndRunning
    /\ NoServices

\* weights = [self.calculate_weight(asset, asset_type) for asset in assets]
calculate_weights ==
    /\ weights = <<>>
    /\ weights' = [i \in DOMAIN assets |-> calculate_weight(assets[i])]
    /\ UNCHANGED << corevars, genvars, publish_runs, jobvars, resched_step,
                    selection, assets, runvars, servicevars >>

NextWeight == calculate_weights

SpecWeight == InitWeight /\ [][NextWeight]_vars


\* ===================================================== checked claims
ApproveOps == {"approve", "button_approve"}
RejectOps == {"reject", "button_reject"}

\* an operation ran to its end on the reel it names (it was not refused for
\* the sender not being an admin)
Handled(ops) == lastOp.op \in ops /\ lastOp.reply # "unauthorized"

\* C1: rejected and published are terminal: once a reel's status is rejected
\* or published, no step changes it again.
C1_TerminalStates ==
    [][\A id \in DOMAIN reels :
          reels[id].status \in {"rejected", "published"}
              => reels'[id].status = reels[id].status]_vars

\* C2: approve on a reel that is not pending reports an invalid state and
\* changes nothing: the reel's row (status, approved_at) is the same after
\* the step and no ScheduledPost was created for it.
C2_ApproveNonPendingIsNoOp ==
    [][\A id \in DOMAIN reels :
          ( /\ lastOp'.op \in ApproveOps
            /\ lastOp'.reply # "unauthorized"
            /\ lastOp'.reel_id = id
            /\ << lastOp, reels, posts >>' # << lastOp, reels, posts >>
            /\ reels[id].status # "pending" )
              => /\ reels'[id] = reels[id]
                 /\ posts' = posts
                 /\ lastOp'.reply = "invalid_state"]_vars

\* C3: in every reachable state there is at most one ScheduledPost row per
\* reel_id.
C3_OnePostPerReel ==
    \A id \in ReelIds : Cardinality(PostsOf(posts, id)) <= 1

\* a schedule_reel call for a reel that already had a row ran into the
\* constraint
C3_Witness ==
    /\ lastOp.op \in ApproveOps
    /\ lastOp.sched = "error"
    /\ PostsOf(posts, lastOp.reel_id) # {}

\* C4: a publish that succeeded leaves the reel published and its
\* ScheduledPost published.
C4_PublishMarksPublished ==
    lastOp.pub = "published"
        => /\ StatusOf(reels, lastOp.reel_id) = "published"
           /\ \A i \in PostsOf(posts, lastOp.reel_id) : posts[i].status = "published"

\* C5: a reel reaches the publish step only when it was approved and has a
\* ScheduledPost that is due.
C5_PublishOnlyApprovedAndDue ==
    lastOp.pub = "published"
        => /\ lastOp.prev = "approved"
           /\ DuePost(posts, lastOp.reel_id, now)

\* C6: _get_next_scheduled_time never returns an instant at or before the
\* moment it is evaluated.
C6_NextTimeInFuture ==
    nst_result # <<>> => nst_result[1] > now

\* the earliest instant after t that falls on the configured weekday at the
\* configured time of day
Matches(cfg, u) ==
    weekday(u) = cfg.day /\ u % TicksPerDay = cfg.time * TicksPerMinute

EarliestMatching(cfg, t) ==
    CHOOSE u \in (t + 1) .. (t + TicksPerWeek) :
        /\ Matches(cfg, u)
        /\ \A v \in (t + 1) .. (u - 1) : ~Matches(cfg, v)

\* C7: _get_next_scheduled_time returns the earliest future instant on the
\* configured weekday at the configured time of day.
C7_NextTimeIsEarliestMatching ==
    nst_result # <<>> => nst_result[1] = EarliestMatching(nst_cfg, now)

\* C8: approve on a pending reel sets status approved, a non-null
\* approved_at, and calls schedule_reel for that reel.
C8_ApprovePending ==
    (Handled(ApproveOps) /\ lastOp.prev = "pending")
        => /\ reels[lastOp.reel_id].status = "approved"
           /\ reels[lastOp.reel_id].approved_at # <<>>
           /\ lastOp.sched # "not_called"

C8_Witness ==
    /\ Handled(ApproveOps)
    /\ lastOp.prev = "pending"
    /\ lastOp.sched = "created"
    /\ reels[lastOp.reel_id].approved_at # <<>>

\* C9: reject on an approved reel sets status rejected and leaves no
\* ScheduledPost row of that reel; reject on a pending reel sets rejected.
C9_Reject ==
    (Handled(RejectOps) /\ lastOp.prev \in {"pending", "approved"})
        => /\ reels[lastOp.reel_id].status = "rejected"
           /\ (lastOp.prev = "approved" => PostsOf(posts, lastOp.reel_id) = {})

\* an approved reel that had a ScheduledPost was rejected
C9_Witness ==
    /\ Handled(RejectOps)
    /\ lastOp.prev = "approved"
    /\ lastOp.sched = "deleted"
    /\ reels[lastOp.reel_id].status = "rejected"

\* C10: a reel never re-enters pending: no step takes a reel whose status is
\* not pending to pending.
C10_NeverBackToPending ==
    [][\A id \in DOMAIN reels :
          reels[id].status # "pending" => reels'[id].status # "pending"]_vars

\* a status-writing operation ran on a reel that had already left pending
C10_Witness ==
    /\ Handled(ApproveOps \cup RejectOps)
    /\ lastOp.prev \in {"approved", "rejected"}
    /\ lastOp.reply \in {"approved_scheduled", "rejected_deleted"}
    /\ reels[lastOp.reel_id].status # "pending"

\* C11: approve, reject, schedule or publish with an id that matches no reel
\* is reported as not found and mutates nothing: no reel changes and no
\* ScheduledPost is created or deleted.
C11_MissingIdNotFound ==
    [][( /\ lastOp'.op \in ApproveOps \cup RejectOps \cup {"post_now"}
         /\ lastOp'.reply # "unauthorized"
         /\ lastOp' # lastOp
         /\ lastOp'.reel_id # 0
         /\ lastOp'.reel_id \notin DOMAIN reels )
           => /\ reels' = reels
              /\ posts' = posts
              /\ lastOp'.reply = "not_found"]_vars

\* C12: scheduling a reel while no weekly post time is configured reports a
\* failure to the caller, creates no ScheduledPost and leaves the reel
\* approved.
C12_NoSlotsIsFailure ==
    [][( /\ lastOp'.op \in ApproveOps
         /\ lastOp' # lastOp
         /\ lastOp'.sched = "no_times" )
           => /\ posts' = posts
              /\ reels'[lastOp'.reel_id].status = "approved"
              /\ lastOp'.reply # "approved_scheduled"]_vars

\* C13: a schedule_reel call for a reel that already has a ScheduledPost is
\* a no-op: the caller completes normally and the scheduled_posts table
\* (the row's scheduled_time, status and retry_count) is the same afterwards.
C13_SecondScheduleIsNoOp ==
    [][( /\ lastOp'.op \in ApproveOps
         /\ lastOp' # lastOp
         /\ lastOp'.sched # "not_called"
         /\ PostsOf(posts, lastOp'.reel_id) # {} )
           => /\ posts' = posts
              /\ lastOp'.reply = "approved_scheduled"]_vars

\* schedule_reel ran for a reel that had a row, at a later instant than the
\* one the row was created at
C13_Witness ==
    /\ Handled(ApproveOps)
    /\ lastOp.sched = "error"
    /\ lastOp.reply = "approved_scheduled"
    /\ now > started
    /\ \E i \in PostsOf(posts, lastOp.reel_id) :
           /\ posts[i].retry_count = 0
           /\ posts[i].status = "pending"
           /\ posts[i].scheduled_time # _get_next_scheduled_time(post_times[1], now)

\* C14: a publish that fails increments the retry_count of the reel's
\* ScheduledPost by one and records an error_message on it, and leaves the
\* reel's status and the ScheduledPost's status as they were.
C14_PublishFailureCountsRetry ==
    [][( /\ lastOp'.op = "post_now"
         /\ lastOp' # lastOp
         /\ lastOp'.pub = "error" )
           => /\ reels' = reels
              /\ DOMAIN posts' = DOMAIN posts
              /\ \A i \in DOMAIN posts :
                    IF posts[i].reel_id = lastOp'.reel_id
                    THEN /\ posts'[i].retry_count = posts[i].retry_count + 1
                         /\ posts'[i].error_message # <<>>
                         /\ posts'[i].status = posts[i].status
                    ELSE posts'[i] = posts[i]]_vars

\* C15: a publish for a reel whose file does not exist stops before the
\* publish step, changes no reel and no ScheduledPost, and is reported to
\* the caller as a failure, not as a publication.
C15_MissingArtifactIsFailure ==
    [][( /\ lastOp'.op = "post_now"
         /\ lastOp' # lastOp
         /\ lastOp'.pub = "file_missing" )
           => /\ reels' = reels
              /\ posts' = posts
              /\ lastOp'.reply # "published"]_vars

\* reels that count as queued
QueuedReels(rs) == { i \in DOMAIN rs : rs[i].status \in {"pending", "approved"} }

\* a step that is a run of the generation job
JobStep == gen_step'.op = "generate_content_job" /\ gen_step' # gen_step

\* a step that is one pass of the loop of generate_content
LoopStep == gen_remaining > 0 /\ gen_remaining' # gen_remaining

\* C16: a run of generate_content_job counts the pending and the approved
\* reels and, when they are fewer than queue_target, requests exactly
\* queue_target minus that many new reels; otherwise it requests none.
C16_QueueShortage ==
    [][JobStep =>
          LET queue_size == Cardinality(QueuedReels(reels))
          IN  IF queue_size < queue_target
              THEN /\ gen_step'.requested + queue_size = queue_target
                   /\ gen_count' = gen_step'.requested
                   /\ gen_remaining' = gen_step'.requested
              ELSE /\ gen_step'.requested = 0
                   /\ gen_remaining' = 0]_vars

\* the job asked for the shortage of a queue that holds a rejected reel next
\* to a queued one
C16_Witness ==
    /\ gen_step.op = "generate_content_job"
    /\ gen_step.requested = queue_target - 1
    /\ Cardinality(QueuedReels(reels)) = 1
    /\ \E i \in DOMAIN reels : reels[i].status = "rejected"

\* C17: generate_content never raises for a failure inside one iteration: the
\* iteration is skipped, the remaining iterations still run, and the returned
\* list holds the reels the successful iterations created, at most count
\* (an iteration is successful when it reaches results.append).
C17_GenerateNeverRaises ==
    [][ /\ Len(results') <= gen_count' - gen_remaining'
        /\ LoopStep =>
              /\ ~gen_step'.raised
              /\ gen_remaining' = gen_remaining - 1
              /\ results' = IF gen_step'.outcome = "created" /\ gen_step'.listed
                            THEN Append(results, Len(reels'))
                            ELSE results ]_vars

\* a call with count >= 2 has returned, one of its iterations was skipped and
\* its last one created a reel
C17_Witness ==
    /\ gen_count >= 2
    /\ gen_remaining = 0
    /\ Len(results) = gen_count - 1
    /\ gen_step.outcome = "created"
    /\ results[Len(results)] = gen_step.reel_id

\* C18: a GeneratedReel row is created only by an iteration whose render
\* succeeded and whose artifact passed the quality gate, and it is created
\* pending; an iteration that ends otherwise leaves the table as it was.
C18_RowOnlyAfterGate ==
    [][ /\ reels' # reels =>
              /\ gen_step'.rendered
              /\ gen_step'.acceptable
              /\ \E quality_score \in {result_quality_score} \cup Scores :
                     reels' = Append(reels, [status |-> "pending", approved_at |-> <<>>,
                                             quality_score |-> quality_score])
        /\ (LoopStep /\ gen_step'.outcome # "created") => reels' = reels ]_vars

\* an iteration went through render and gate and stored its pending row
C18_Witness ==
    /\ gen_step.outcome = "created"
    /\ gen_step.rendered
    /\ gen_step.acceptable
    /\ gen_step.reel_id = Len(reels)
    /\ reels[gen_step.reel_id].status = "pending"

\* no row of the old asset table changed, and rows added since are unused
UsageUnchanged(old, new) ==
    /\ \A k \in DOMAIN old : k \in DOMAIN new /\ new[k] = old[k]
    /\ \A k \in DOMAIN new \ DOMAIN old :
           new[k].usage_count = 0 /\ new[k].last_used_at = <<>>

AllUsageUnchanged ==
    /\ UsageUnchanged(videos, videos')
    /\ UsageUnchanged(music, music')
    /\ UsageUnchanged(quotes, quotes')

\* C19: an iteration that is skipped leaves usage_count and last_used_at of
\* every asset as they were; usage changes only in an iteration that has
\* persisted its reel.
C19_SkippedKeepsUsage ==
    [][ /\ (LoopStep /\ gen_step'.outcome # "created") => AllUsageUnchanged
        /\ ~AllUsageUnchanged =>
              /\ gen_step'.outcome = "created"
              /\ Len(reels') = Len(reels) + 1 ]_vars

\* an iteration was dropped after it had picked assets that were used before
C19_Witness ==
    /\ gen_step.outcome \in {"render_error", "quality_rejected"}
    /\ gen_step.video \in DOMAIN videos
    /\ videos[gen_step.video].usage_count > 0
    /\ music[gen_step.music].usage_count > 0
    /\ quotes[gen_step.quote].usage_count > 0

\* the asset k was used once at t: its count went up by one (from 0 for a row
\* added by the step) and its last_used_at is t
UsedOnce(old, new, k, t) ==
    /\ k \in DOMAIN new
    /\ new[k].usage_count = (IF k \in DOMAIN old THEN old[k].usage_count ELSE 0) + 1
    /\ new[k].last_used_at = << t >>

\* C20: every successful iteration, on the selection path and on the AI-idea
\* / download path, raises the usage_count of its video, music and quote by
\* exactly 1 and sets the last_used_at of each to the current time.
C20_SuccessCountsUsage ==
    [][(LoopStep /\ gen_step'.outcome = "created") =>
          /\ UsedOnce(videos, videos', gen_step'.video, now)
          /\ UsedOnce(music, music', gen_step'.music, now)
          /\ UsedOnce(quotes, quotes', gen_step'.quote, now)]_vars

\* C21: every persisted GeneratedReel stores a quality_score that is at
\* least the configured threshold, and the score stored by an iteration is
\* the score the quality gate accepted in that iteration.
C21_StoredScoreIsGateScore ==
    [][(LoopStep /\ gen_step'.outcome = "created") =>
          /\ reels'[gen_step'.reel_id].quality_score >= quality_threshold
          /\ reels'[gen_step'.reel_id].quality_score = gen_step'.score]_vars

\* reels of the rows get_due_posts selects: scheduled_time <= now and
\* status == "pending"
DuePendingReels ==
    { posts[i].reel_id : i \in { j \in DOMAIN posts :
                                   /\ posts[j].scheduled_time <= now
                                   /\ posts[j].status = "pending" } }

\* C23: each run of publish_scheduled_job hands to publication exactly the
\* ScheduledPost rows with scheduled_time <= now and status == "pending".
C23_JobHandsDuePending ==
    [][lastOp'.op = "publish_scheduled_job" => lastOp'.handed = DuePendingReels']_vars

\* an approved reel whose artifact exists has a pending ScheduledPost that is due
DueForPublication(reel_id) ==
    /\ StatusOf(reels, reel_id) = "approved"
    /\ reel_id \in files
    /\ \E i \in PostsOf(posts, reel_id) :
          /\ posts[i].status = "pending"
          /\ posts[i].scheduled_time <= now

\* C24: while the publish job keeps firing, an approved reel with a pending
\* due ScheduledPost and an existing artifact is eventually published, unless
\* it stops being such a reel.
C24_DuePostsDrain ==
    \A reel_id \in 1 .. MaxReels :
        DueForPublication(reel_id)
            ~> (StatusOf(reels, reel_id) = "published" \/ ~DueForPublication(reel_id))

\* C26: an exception inside a recurring job callback is caught and turned
\* into a message to the notification sink.
C26_JobErrorIsNotified ==
    [][(job_step' # job_step /\ job_step'.raised)
          => \E i \in DOMAIN job_step'.notified : job_step'.notified[i] = "error"]_vars

\* a run of calendar_check_job whose query went through
CalendarRun == job_step'.job = "calendar_check_job" /\ ~job_step'.raised

\* C25: each run of calendar_check_job resolves exactly the calendar entries
\* with date <= now and status == "approved", in ascending date order, and
\* publishes each of them; the other entries are untouched.
C25_CalendarResolvesDueInOrder ==
    [][CalendarRun =>
          LET handed == job_step'.handed
          IN  /\ { handed[i] : i \in DOMAIN handed } = due_entries(calendar, now)
              /\ \A i, j \in DOMAIN handed :
                    i < j => calendar[handed[i]].date <= calendar[handed[j]].date
              /\ \A i \in DOMAIN handed : job_step'.outcomes[i] = "published"
              /\ calendar' = calendar]_vars

\* a /reschedule of an admin that names a reel and a well-formed date and time
RescheduleStep ==
    /\ resched_step' # resched_step
    /\ resched_step'.reply \notin {"unauthorized", "usage", "invalid_reel_id",
                                   "invalid_datetime"}

\* the typed time of resched_step as a UTC instant
NewTimeUtc(step) ==
    step.typed[1].date * TicksPerDay + step.typed[1].time * TicksPerMinute
        - utc_offset * TicksPerMinute

\* C22: /reschedule refuses a new time earlier than now, and refuses a reel
\* that is neither approved nor scheduled; in both cases no ScheduledPost is
\* created or modified.
C22_RescheduleRefuses ==
    [][RescheduleStep =>
          /\ NewTimeUtc(resched_step') < now
                => resched_step'.reply = "past" /\ posts' = posts
          /\ StatusOf(reels, resched_step'.reel_id[1]) \notin {"approved", "scheduled"}
                => resched_step'.reply # "rescheduled" /\ posts' = posts]_vars

\* an admin typed a local time that is still ahead on the local clock, and
\* behind on the UTC clock, for a reel that has a ScheduledPost
C22_Witness ==
    /\ resched_step.reply = "past"
    /\ PostsOf(posts, resched_step.reel_id[1]) # {}
    /\ NewTimeUtc(resched_step) + utc_offset * TicksPerMinute >= now

\* every video's duration exceeds 1.2 times every music track's duration
AllTooLong ==
    \A v \in DOMAIN videos, m \in DOMAIN music :
        /\ videos[v].duration # 0
        /\ music[m].duration # 0
        /\ 5 * videos[v].duration > 6 * music[m].duration

\* C27: find_matching_combination makes at most 5 attempts and returns the
\* first valid combination; when every video is longer than 1.2 times every
\* music track it makes exactly 5 attempts and returns None; it terminates.
C27_AtMostFiveAttempts ==
    [][selection' # selection /\ selection.state = "trying" =>
          /\ selection'.attempts = selection.attempts + 1
          /\ selection'.attempts <= max_attempts
          /\ selection'.state = "returned"
                <=> \/ is_valid_selection(videos, music, selection'.video,
                                          selection'.music, selection'.quote)
                    \/ selection'.attempts = max_attempts
          /\ selection'.result # <<>>
                <=> is_valid_selection(videos, music, selection'.video,
                                       selection'.music, selection'.quote)
          /\ selection'.result # <<>>
                => selection'.result[1] = [video |-> selection'.video[1],
                                           music |-> selection'.music[1],
                                           quote |-> selection'.quote[1]]
          /\ (AllTooLong /\ selection'.state = "returned")
                => selection'.attempts = max_attempts /\ selection'.result = <<>>]_vars

\* every video is too long for every track, and the call has returned None
\* after its fifth attempt
C27_Witness ==
    /\ AllTooLong
    /\ DOMAIN videos # {} /\ DOMAIN music # {} /\ DOMAIN quotes # {}
    /\ selection.state = "returned"
    /\ selection.attempts = max_attempts
    /\ selection.result = <<>>
    /\ all_selected(selection.video, selection.music, selection.quote)

\* C28: every combination find_matching_combination returns has a video and
\* a music track with recorded durations such that
\* video.duration <= 1.2 * music.duration.
C28_ReturnedIsValid ==
    selection.result # <<>> =>
        LET combination == selection.result[1]
        IN  /\ videos[combination.video].duration # 0
            /\ music[combination.music].duration # 0
            /\ 5 * videos[combination.video].duration
                  <= 6 * music[combination.music].duration

\* the asset was not used within the past 7 days
NotUsedRecently(asset) ==
    asset.last_used_at = <<>> \/ asset.last_used_at[1] >= recent_days

\* the usage counts up to which 1/(1+k) is not below the floor of 0.1
Unfloored == 0 .. 9

\* C29 as stated: every weight is at least 0.1, and the weight of an asset
\* not used recently, with usage_count k, is 1/(1+k).
C29_WeightIsReciprocal ==
    \A i \in DOMAIN weights :
        /\ ~FractionLess(weights[i], Fraction(1, 10))
        /\ NotUsedRecently(assets[i])
              => FractionEq(weights[i], Fraction(1, 1 + assets[i].usage_count))

\* C29: every weight is at least 0.1; the weight of an asset not used
\* recently is 1/(1+k) for usage_count k <= 9 and is 0.1 for k >= 9.
C29_WeightIsFlooredReciprocal ==
    \A i \in DOMAIN weights :
        /\ ~FractionLess(weights[i], Fraction(1, 10))
        /\ (NotUsedRecently(assets[i]) /\ assets[i].usage_count \in Unfloored)
              => FractionEq(weights[i], Fraction(1, 1 + assets[i].usage_count))
        /\ (NotUsedRecently(assets[i]) /\ assets[i].usage_count >= 9)
              => FractionEq(weights[i], Fraction(1, 10))

\* an asset used more than 9 times and not recently has the floor weight
C29_Witness ==
    /\ weights # <<>>
    /\ \E i \in DOMAIN weights :
          /\ NotUsedRecently(assets[i])
          /\ assets[i].usage_count > 9
          /\ FractionEq(weights[i], Fraction(1, 10))

\* two assets with the same usage_count, the first used within the past 7
\* days, the second not
RecentAndNot(i, j) ==
    /\ assets[i].usage_count = assets[j].usage_count
    /\ ~NotUsedRecently(assets[i])
    /\ NotUsedRecently(assets[j])

UsageGrows(table, after, used) ==
    /\ \A id \in DOMAIN table :
          /\ id \in DOMAIN after
          /\ after[id].usage_count >= table[id].usage_count
          /\ after[id].usage_count # table[id].usage_count
                => /\ gen_step'.outcome = "created"
                   /\ gen_step'.rendered
                   /\ gen_step'.acceptable
                   /\ id = used
    /\ \A id \in DOMAIN after : after[id].usage_count >= 0

\* C31: the usage_count of every Video, Music and Quote is >= 0 and never
\* decreases; it changes only in the usage update that follows a rendered,
\* quality-gated, persisted generation.
C31_UsageCountMonotone ==
    [][/\ UsageGrows(videos, videos', gen_step'.video)
       /\ UsageGrows(music, music', gen_step'.music)
       /\ UsageGrows(quotes, quotes', gen_step'.quote)]_vars

\* a generation was persisted and its stock video, used before, is counted again
C31_Witness ==
    /\ gen_step.outcome = "created"
    /\ gen_step.video \in DOMAIN videos
    /\ videos[gen_step.video].usage_count >= 2

\* C36: the list generate_content returns corresponds one-to-one to the
\* GeneratedReel rows the call created: each iteration that persists a reel
\* appends its id, also when the usage update after it fails, and every id
\* in the list is a persisted pending reel.
C36_ResultsMatchRows ==
    [][LoopStep =>
          /\ reels' # reels => results' = Append(results, Len(reels'))
          /\ reels' = reels => results' = results
          /\ \A i \in DOMAIN results' :
                /\ results'[i] \in DOMAIN reels'
                /\ reels'[results'[i]].status = "pending"]_vars

\* C37: no reel the batch of generate_content_job creates brings
\* count(pending) + count(approved) above queue_target, also when approve or
\* reject commands are handled between the job's count and the end of its
\* batch.
C37_JobKeepsQueueTarget ==
    [][(LoopStep /\ reels' # reels)
          => Cardinality(QueuedReels(reels')) <= queue_target]_vars

\* C34: every ScheduledPost row references an existing reel whose status is
\* approved: no pending, rejected or missing reel has a ScheduledPost.
C34_PostsReferenceApproved ==
    \A i \in DOMAIN posts :
        /\ GeneratedReelRepository_get_by_id(reels, posts[i].reel_id)
        /\ reels[posts[i].reel_id].status = "approved"

\* a reel that had been rejected was approved again and holds a ScheduledPost
C34_Witness ==
    /\ Handled(ApproveOps)
    /\ lastOp.prev = "rejected"
    /\ lastOp.sched = "created"
    /\ PostsOf(posts, lastOp.reel_id) # {}

\* the Telegram entry points that write reel status or ScheduledPost rows
MutatingOps == ApproveOps \cup RejectOps \cup {"deleteschedule"}

\* C38: no reel status change and no ScheduledPost creation or deletion is
\* performed on behalf of a user that is not an admin: a step of a mutating
\* entry point, button callbacks included, taken for such a user leaves the
\* reel and ScheduledPost tables as they were.
C38_NonAdminChangesNothing ==
    [][(lastOp'.op \in MutatingOps /\ ~_is_admin(lastOp'.user))
          => (reels' = reels /\ posts' = posts)]_vars

\* the reels a job run handed to publish_reel_to_instagram, and those among
\* them whose publication completed successfully
HandedReels(step) ==
    { calendar[step.handed[i]].reel_id[1] :
        i \in { j \in DOMAIN step.handed : step.outcomes[j] # "no_reel" } }

PublishedReels(step) ==
    { calendar[step.handed[i]].reel_id[1] :
        i \in { j \in DOMAIN step.handed : step.outcomes[j] = "published" } }

\* C35: publication is idempotent: once publish_reel_to_instagram has
\* completed successfully for a reel, no later run of calendar_check_job or
\* publish_scheduled_job hands the same reel to publish again.
C35_PublishedNotHandedAgain ==
    [][PublishedReels(job_step) \cap HandedReels(job_step') = {}]_vars

\* stop() has completed
Stopped == ~running /\ scheduler = "shutdown"

\* C33: stopping the orchestrator cancels the recurring-job driver and the
\* command listener: after stop() has completed no job callback starts and no
\* command is handled, and stop() rolls back nothing a generation in flight
\* has written.
C33_StopCancelsJobsAndCommands ==
    [][/\ Stopped => (job_step' = job_step /\ lastOp' = lastOp)
       /\ (running /\ ~running') => (reels' = reels /\ results' = results)]_vars

\* C32: every persistence-touching operation opens its own session and
\* closes it on completion, also on the error path, and no operation keeps a
\* session open across an await: a suspended coroutine holds no open session,
\* neither its own nor the orchestrator's, and a completed one had a session
\* of its own, which is closed.
C32_OwnSessionClosedBeforeAwait ==
    /\ \A op \in SessionOps :
          coroutines.phase[op] = "awaiting"
              => /\ op \notin coroutines.own
                 /\ own_session(op) \/ session # "open"
    /\ coroutines.last.op # "none" => coroutines.last.own = "closed"

\* the polls of the call gave no FINISHED, ERROR or FAILED status
NothingFinal(call) ==
    call.last.kind = "error" \/ call.last.status \notin {"FINISHED", "ERROR", "FAILED"}

\* C39: publish_reel follows create container -> poll -> publish:
\* publish_container is called only after a poll returned FINISHED, an ERROR
\* or FAILED status aborts with an exception, a status-check error consumes a
\* poll attempt rather than aborting, after max_polls polls without FINISHED
\* the call raises and never publishes, and the call always terminates.
C39_CreatePollPublish ==
    /\ [](/\ ig_call.calls # <<>> => ig_call.calls[1] = "create_container"
          /\ Contains(ig_call.calls, "publish_container")
                => ig_call.last.status = "FINISHED"
          /\ ig_call.last.status \in {"ERROR", "FAILED"} => ig_call.pc = "raised"
          /\ (ig_call.last.kind = "error" /\ ig_call.attempt < ig_call.max_polls)
                => ig_call.pc = "polling"
          /\ (ig_call.attempt = ig_call.max_polls /\ NothingFinal(ig_call)
                /\ ig_call.pc # "idle")
                => (ig_call.pc = "raised"
                      /\ ~Contains(ig_call.calls, "publish_container")))
    /\ (ig_call.pc = "polling" ~> ig_call.pc \in {"returned", "raised"})

\* a generator gave nothing usable: it raised, or sanitising what it
\* returned raised
Failed(called) == called[1].raised \/ called[1].value = <<>>

\* C40: LLMProvider.generate never raises and always returns a caption: the
\* primary generator's when it and the sanitising of its output succeed,
\* else the fallback generator's, and when that fails too the fixed
\* last-resort caption built from the quote.
C40_GenerateAlwaysReturnsCaption ==
    llm_call.state # "idle"
        => /\ llm_call.state = "returned"
           /\ llm_call.caption # <<>>
           /\ ~Failed(llm_call.primary)
                 => (llm_call.source = "primary" /\ llm_call.fallback = <<>>)
           /\ Failed(llm_call.primary)
                 => /\ llm_call.fallback # <<>>
                    /\ IF Failed(llm_call.fallback)
                       THEN llm_call.caption = << last_resort(llm_call.quote) >>
                       ELSE llm_call.source = "fallback"

\* the primary generator raised, the fallback returned no string, and the
\* last-resort caption came back
C40_Witness ==
    /\ llm_call.state = "returned"
    /\ llm_call.primary = << [raised |-> TRUE, value |-> <<>>] >>
    /\ llm_call.fallback = << [raised |-> FALSE, value |-> <<>>] >>
    /\ llm_call.source = "last_resort"

====
